---- MODULE Spec2Model ----
(***************************************************************************)
(* Model of third-party/bootstrap.py: the manifest-driven bootstrapper.    *)
(* The state is the merged manifest, the command-line options, the         *)
(* in-memory state cache (sdata), the state-cache file, the set of library *)
(* workspace directories that exist under SRC_DIR, the failure list and    *)
(* the position of main() in its loop.  External operations (download,     *)
(* extraction, VCS commands, patch, script) are black boxes whose outcome  *)
(* is chosen nondeterministically.                                         *)
(*                                                                         *)
(* The specifications share the variables:                                 *)
(*   Spec       runs of main() over a merged manifest, with acquisition    *)
(*              as a black box;                                            *)
(*   SpecLive   Spec with fairness on the steps of main();                 *)
(*   SpecDup    Spec on manifests in which a name occurs more than once;   *)
(*   SpecMerge  the sanity checks and the merge of the canonical and the   *)
(*              local manifest (lines 644-680);                            *)
(*   SpecLib    the loop body for one library with the files of SRC_DIR,   *)
(*              the archive cache and the snapshot directory (lines        *)
(*              735-863, downloadFile, cloneRepository, applyPatchFile);   *)
(*   SpecShare  the loop over two sourcefile or archive entries that use   *)
(*              the same file of the download directory;                   *)
(*   SpecDirs   the directory options of the command line and the          *)
(*              directories a run uses (lines 70-77, 576-582);             *)
(*   SpecExtract  one call of extractFile on an archive file given by      *)
(*              its name, its bytes and its entries (lines 215-298).       *)
(***************************************************************************)
EXTENDS Integers, Sequences, FiniteSets, TLC

\* ------------------------------------------------------------------ bounds
MaxLibs == 2
MaxRuns == 2
MaxRev == 2
MaxEntries == 2

\* ------------------------------------------------------- manifest entries
\* Library names; the entry at position j of a manifest is named LibNames[j]
\* (names are the unique key of a manifest, spec section 3).
LibNames == <<"a", "b", "c", "d">>

Names == {LibNames[j] : j \in 1..MaxLibs}

\* A manifest entry.  revision stands for the remaining fields of the entry
\* (url, revision, sha1, pnum, ...): two entries are structurally equal iff
\* all four fields agree.
Library(n, s, r, p) == [name |-> n, source |-> s, revision |-> r, postprocess |-> p]

\* The shapes <<source, postprocess>> of entry of the model.  source is
\* "null" for an absent source object, "untyped" for a source object without
\* a 'type' key, otherwise source['type']; postprocess likewise.  The shapes
\* are every well-formed combination, an entry whose source lacks 'type', and
\* one whose postprocess lacks 'type'.
Shapes == ({"null", "sourcefile", "archive"} \X {"null", "patch"})
              \cup {<<"untyped", "null">>, <<"archive", "untyped">>}

Libraries == {Library(n, sh[1], r, sh[2]) : n \in Names, sh \in Shapes, r \in 1..MaxRev}

\* The manifests a first run starts from: every length up to MaxLibs, names
\* pairwise distinct, every entry at its first revision.
Manifests == UNION {
    {m \in [1..len -> Libraries] :
        \A j \in 1..len : m[j].name = LibNames[j] /\ m[j].revision = 1}
    : len \in 0..MaxLibs}

VARIABLES
    data,               \* merged manifest (list of entries)
    opt_clean,          \* --clean / --clean-all
    break_on_first_error,
    FALLBACK_URL,       \* "" or the configured mirror
    force_fallback,
    skip_libs,          \* --skip names
    opt_names,          \* --name / --name-file names
    sdata,              \* in-memory state cache
    loaded,             \* the state cache as this run read it from the file
    state_file,         \* <<>> when the file is absent, <<content>> otherwise
    lib_dirs,           \* names whose workspace directory exists
    failed_libraries,
    i,                  \* position of the for loop in data (1-based)
    pc,                 \* position of main()
    exit_status,        \* <<>> while running, <<status>> once the process ended
    run,                \* number of the current run
    log,                \* events of the current run, in order
    prev,               \* what the previous run started from and did
    local_data,         \* <<>> for None, <<list>> for the local manifest as read
    source,             \* the source object of the library being acquired
    extract_dir,        \* the folder under SRC_DIR the served archive unpacks into
    src_dir,            \* SRC_DIR: directory name -> <<>> (absent) or <<files>>
    archive_dir,        \* the file of ARCHIVE_DIR named by the url: <<>> or <<content>>
    snapshot_dir,       \* the file of SNAPSHOT_DIR named archive_name
    opt_clean_archives, \* --clean-all
    create_repo_snapshots,
    dl_calls,           \* the calls of downloadFile made for the library, in order
    canonical,          \* the canonical manifest as it was read (data before the merge)
    sources,            \* the source objects of the manifest entries, by position
    argv,               \* the command line, as a list of options with their values
    opts,               \* the options getopt returned that the loop has not handled yet
    cwd,                \* the current working directory of the process
    start_dir,          \* the working directory the script was started in
    global_dirs,        \* the globals BASE_DIR, SRC_DIR, ARCHIVE_DIR, SNAPSHOT_DIR and
                        \* main()'s base_dir_path
    touched,            \* the directories the run has read from or written to, by role
    filename,           \* extractFile: the archive's file name, split at its dots
    format,             \* what the bytes of that file are
    entries,            \* the entries of the archive
    lzma_available,
    extraction,         \* <<>> before extractFile ran, <<what it did>> after
    commands,           \* the commands given to executeCommand for the library
    clone_calls,        \* the calls of cloneRepository made for the library, in order
    patch_calls         \* the calls of applyPatchFile made for the library

\* The command line and the directories of the process.
dirVars == <<argv, opts, cwd, start_dir, global_dirs, touched>>

\* The file-level state of one library's acquisition and the unmerged local
\* manifest: the orchestrator model (Spec) abstracts them into data, lib_dirs
\* and the outcome of an acquisition, and leaves them alone.
extractVars == <<filename, format, entries, lzma_available, extraction>>

toolVars == <<commands, clone_calls, patch_calls>>

detail == <<local_data, source, extract_dir, src_dir, archive_dir, snapshot_dir,
            opt_clean_archives, create_repo_snapshots, dl_calls, canonical, sources,
            dirVars,
            extractVars, toolVars>>

vars == <<data, opt_clean, break_on_first_error, FALLBACK_URL, force_fallback,
          skip_libs, opt_names, sdata, loaded, state_file, lib_dirs,
          failed_libraries, i, pc, exit_status, run, log, prev, detail>>

options == <<opt_clean, break_on_first_error, FALLBACK_URL, force_fallback,
             skip_libs, opt_names>>

Event(e, j) == [ev |-> e, lib |-> j]

\* ------------------------------------------------------------ helpers
\* Mutant of RemoveCachedState: the whole cached state is dropped.
RemoveCachedState_All(s, name) == <<>>

\* Mutant of RemoveCachedState: nothing is removed.
RemoveCachedState_Keep(s, name) == s

\* sdata[:] = [s for s in sdata if not (s.name == name)]
RemoveCachedState(s, name) == SelectSeq(s, LAMBDA e : e.name # name)

\* Mutant of CachedStateOk: only the names are compared.
CachedStateOk_NameOnly(library) ==
    /\ ~opt_clean
    /\ \E k \in 1..Len(sdata) :
          /\ sdata[k].name = library.name
          /\ library.name \in lib_dirs

\* Mutant of CachedStateOk: the workspace directory is not looked at.
CachedStateOk_NoDirCheck(library) ==
    /\ ~opt_clean
    /\ \E k \in 1..Len(sdata) :
          /\ sdata[k].name = library.name
          /\ sdata[k] = library

\* lines 720-726: the cached-state comparison
CachedStateOk(library) ==
    /\ ~opt_clean
    /\ \E k \in 1..Len(sdata) :
          /\ sdata[k].name = library.name
          /\ sdata[k] = library
          /\ library.name \in lib_dirs

\* Mutant of Filtered: a name in the include list is processed even when it
\* is in the skip list too.
Filtered_IncludeWins(name) ==
    IF opt_names # {} THEN name \notin opt_names ELSE name \in skip_libs

\* lines 707-711: the name filters
Filtered(name) ==
    \/ (skip_libs # {} /\ name \in skip_libs)
    \/ (opt_names # {} /\ name \notin opt_names)

Exit(status) ==
    /\ pc' = "exited"
    /\ exit_status' = <<status>>

\* Mutant of HandleFailure: the first failure always ends the process.
HandleFailure_AlwaysExit(name) ==
    /\ Exit(255)
    /\ UNCHANGED <<failed_libraries, i>>

\* Mutant of HandleFailure: --break-on-first-error is ignored.
HandleFailure_NeverExit(name) ==
    /\ failed_libraries' = Append(failed_libraries, name)
    /\ i' = i + 1
    /\ pc' = "loop"
    /\ UNCHANGED exit_status

\* The handlers of lines 864-875: exit(-1) under --break-on-first-error,
\* otherwise the name joins failed_libraries and the loop goes on.
HandleFailure(name) ==
    IF break_on_first_error
    THEN /\ Exit(255)
         /\ UNCHANGED <<failed_libraries, i>>
    ELSE /\ failed_libraries' = Append(failed_libraries, name)
         /\ i' = i + 1
         /\ pc' = "loop"
         /\ UNCHANGED exit_status

\* Outcomes of one acquisition attempt, by source type.  "ok": the attempt
\* returned; "fail_keep": it raised and left the workspace directory as it
\* was (download, hash check, copy, fetch or reset failed); "fail_remove":
\* it raised after the directory was removed (extractFile and cloneRepository
\* remove the target first).
AcquireOutcomes(type) ==
    IF type = "sourcefile" THEN {"ok", "fail_keep"}
    ELSE {"ok", "fail_keep", "fail_remove"}

\* The workspace directories after an acquisition attempt on name.
DirsAfter(dirs, name, outcome) ==
    CASE outcome = "ok" -> dirs \cup {name}
      [] outcome = "fail_keep" -> dirs
      [] outcome = "fail_remove" -> dirs \ {name}

\* ------------------------------------------------------------- actions
\* Libraries whose reprocessing began in this run (cache miss) and that have
\* not been added to the cached state.
Unfinished ==
    {data[log[k].lib].name : k \in {x \in 1..Len(log) :
        /\ log[x].ev = "miss"
        /\ \A y \in x..Len(log) : ~(log[y].ev = "cached" /\ log[y].lib = log[x].lib)}}

NoPrev == [data |-> <<>>, outcome |-> "other", unfinished |-> {}, removed |-> {}]

\* The filter options of the model, as pairs <<skip_libs, opt_names>>: no
\* filter, one name skipped, one name included, one name in both lists.
FilterChoices == {<<{}, {}>>, <<{LibNames[1]}, {}>>, <<{}, {LibNames[MaxLibs]}>>,
                  <<{LibNames[1]}, {LibNames[1]}>>}

\* Python's None where the model needs it as a value of its own.
None == "None"

\* Absent source object (library.get('source', None) is None).
NoSourceObject == [type |-> "null", url |-> "", sha1 |-> None, revision |-> None]

\* No archive is being extracted.
NoExtraction ==
    /\ filename = <<>>
    /\ format = ""
    /\ entries = {}
    /\ lzma_available = TRUE
    /\ extraction = <<>>

\* No external tool was run.
NoCommands ==
    /\ commands = <<>>
    /\ clone_calls = <<>>
    /\ patch_calls = <<>>

\* The command line and the directory globals when they are not modelled.
NoDirs ==
    /\ argv = <<>>
    /\ opts = <<>>
    /\ cwd = <<>>
    /\ start_dir = <<>>
    /\ global_dirs = <<>>
    /\ touched = {}

\* No library is being acquired: nothing on disk, no call.
NoLib ==
    /\ local_data = <<>>
    /\ source = NoSourceObject
    /\ extract_dir = ""
    /\ src_dir = <<>>
    /\ archive_dir = <<>>
    /\ snapshot_dir = <<>>
    /\ opt_clean_archives = FALSE
    /\ create_repo_snapshots = FALSE
    /\ dl_calls = <<>>
    /\ canonical = <<>>
    /\ sources = <<>>

\* The file-level state when it is not modelled.
NoDetail ==
    /\ NoLib
    /\ NoExtraction
    /\ NoCommands
    /\ NoDirs

Init ==
    /\ data \in Manifests
    /\ opt_clean = FALSE    \* nothing to clean before the first run
    /\ break_on_first_error \in BOOLEAN
    /\ FALLBACK_URL \in {"", "mirror"}
    /\ force_fallback \in BOOLEAN
    /\ \E f \in FilterChoices : skip_libs = f[1] /\ opt_names = f[2]
    /\ sdata = <<>>
    /\ loaded = <<>>
    /\ state_file = <<>>
    /\ lib_dirs = {}
    /\ failed_libraries = <<>>
    /\ i = 1
    /\ pc = "start"
    /\ exit_status = <<>>
    /\ run = 1
    /\ log = <<>>
    /\ prev = NoPrev
    /\ NoDetail

\* lines 633-635: --force-fallback without --fallback-url
ConfigError ==
    /\ pc = "start"
    /\ force_fallback /\ FALLBACK_URL = ""
    /\ Exit(255)
    /\ UNCHANGED <<data, options, detail, sdata, loaded, state_file, lib_dirs, failed_libraries,
                   i, run, log, prev>>

\* lines 686-700: load the state cache, start the loop
LoadState ==
    /\ pc = "start"
    /\ ~(force_fallback /\ FALLBACK_URL = "")
    /\ sdata' = IF state_file # <<>> THEN state_file[1] ELSE <<>>
    /\ failed_libraries' = <<>>
    /\ i' = 1
    /\ pc' = "loop"
    /\ UNCHANGED <<data, options, detail, state_file, lib_dirs, exit_status, run, log, prev>>
    /\ loaded' = sdata'

\* lines 707-711: the library is filtered out
SkipLibrary ==
    /\ pc = "loop" /\ i <= Len(data)
    /\ Filtered(data[i].name)
    /\ i' = i + 1
    /\ log' = Append(log, Event("skip", i))
    /\ UNCHANGED <<data, options, detail, sdata, loaded, state_file, lib_dirs, failed_libraries,
                   pc, exit_status, run, prev>>

\* lines 719-730: cache hit
CacheHit ==
    /\ pc = "loop" /\ i <= Len(data)
    /\ ~Filtered(data[i].name)
    /\ CachedStateOk(data[i])
    /\ i' = i + 1
    /\ log' = Append(log, Event("hit", i))
    /\ UNCHANGED <<data, options, detail, sdata, loaded, state_file, lib_dirs, failed_libraries,
                   pc, exit_status, run, prev>>

\* lines 731-733: cache miss, the cached state of the name is removed
CacheMiss ==
    /\ pc = "loop" /\ i <= Len(data)
    /\ ~Filtered(data[i].name)
    /\ ~CachedStateOk(data[i])
    /\ sdata' = RemoveCachedState(sdata, data[i].name)
    /\ pc' = "libdir"
    /\ log' = Append(log, Event("miss", i))
    /\ UNCHANGED <<data, options, detail, loaded, state_file, lib_dirs, failed_libraries,
                   i, exit_status, run, prev>>

\* lines 735-741: (clean and) create the library directory
CreateLibDir ==
    /\ pc = "libdir"
    /\ lib_dirs' = lib_dirs \cup {data[i].name}
    /\ pc' = "source"
    /\ UNCHANGED <<data, options, detail, sdata, loaded, state_file, failed_libraries,
                   i, exit_status, run, log, prev>>

\* lines 835-838: no source, set up a clean directory
NoSource ==
    /\ pc = "source"
    /\ data[i].source = "null"
    /\ lib_dirs' = lib_dirs \cup {data[i].name}
    /\ pc' = "post"
    /\ log' = Append(log, Event("nosource", i))
    /\ UNCHANGED <<data, options, detail, sdata, loaded, state_file, failed_libraries,
                   i, exit_status, run, prev>>

\* lines 746-751: a source object without 'type' (or 'url'): return -1
SourceSchemaError ==
    /\ pc = "source"
    /\ data[i].source = "untyped"
    /\ Exit(255)
    /\ log' = Append(log, Event("abort", i))
    /\ UNCHANGED <<data, options, detail, sdata, loaded, state_file, lib_dirs, failed_libraries,
                   i, run, prev>>

\* lines 758-763, 781-784, 805-816: the primary acquisition
PrimaryAcquire ==
    /\ pc = "source"
    /\ data[i].source \notin {"null", "untyped"}
    /\ ~force_fallback
    /\ \E outcome \in AcquireOutcomes(data[i].source) :
          IF outcome = "ok"
          THEN /\ lib_dirs' = DirsAfter(lib_dirs, data[i].name, outcome)
               /\ pc' = "post"
               /\ log' = Append(log, Event("primary_ok", i))
               /\ UNCHANGED <<failed_libraries, i, exit_status>>
          ELSE IF FALLBACK_URL # ""
          THEN /\ lib_dirs' = DirsAfter(lib_dirs, data[i].name, outcome)
               /\ pc' = "fallback"
               /\ log' = Append(log, Event("primary_fail", i))
               /\ UNCHANGED <<failed_libraries, i, exit_status>>
          ELSE \* no fallback: line 776 removes lib_dir of a sourcefile; raise
               /\ lib_dirs' = IF data[i].source = "sourcefile"
                              THEN lib_dirs \ {data[i].name}
                              ELSE DirsAfter(lib_dirs, data[i].name, outcome)
               /\ log' = Append(log, Event("primary_fail", i))
               /\ HandleFailure(data[i].name)
    /\ UNCHANGED <<data, options, detail, sdata, loaded, state_file, run, prev>>

\* lines 759-760, 782-783, 806-807: --force-fallback raises at once
ForceFallback ==
    /\ pc = "source"
    /\ data[i].source \notin {"null", "untyped"}
    /\ force_fallback
    /\ pc' = "fallback"
    /\ UNCHANGED <<data, options, detail, sdata, loaded, state_file, lib_dirs, failed_libraries,
                   i, exit_status, run, log, prev>>

\* Mutant of FallbackAcquire: a failed fallback is tried a second time.
FallbackAcquire_RetriesOnce ==
    /\ pc = "fallback"
    /\ \E outcome \in AcquireOutcomes(data[i].source) :
          /\ lib_dirs' = DirsAfter(lib_dirs, data[i].name, outcome)
          /\ IF outcome = "ok"
             THEN /\ pc' = "post"
                  /\ log' = Append(log, Event("fallback_ok", i))
                  /\ UNCHANGED <<failed_libraries, i, exit_status>>
             ELSE /\ log' = Append(log, Event("fallback_fail", i))
                  /\ IF \E k \in DOMAIN log : log[k] = Event("fallback_fail", i)
                     THEN HandleFailure(data[i].name)
                     ELSE UNCHANGED <<pc, failed_libraries, i, exit_status>>
    /\ UNCHANGED <<data, options, detail, sdata, loaded, state_file, run, prev>>

\* lines 765-774, 786-794, 819-832: the fallback acquisition
FallbackAcquire ==
    /\ pc = "fallback"
    /\ \E outcome \in AcquireOutcomes(data[i].source) :
          /\ lib_dirs' = DirsAfter(lib_dirs, data[i].name, outcome)
          /\ IF outcome = "ok"
             THEN /\ pc' = "post"
                  /\ log' = Append(log, Event("fallback_ok", i))
                  /\ UNCHANGED <<failed_libraries, i, exit_status>>
             ELSE /\ log' = Append(log, Event("fallback_fail", i))
                  /\ HandleFailure(data[i].name)
    /\ UNCHANGED <<data, options, detail, sdata, loaded, state_file, run, prev>>

\* lines 841-847: no postprocess
NoPost ==
    /\ pc = "post"
    /\ data[i].postprocess = "null"
    /\ pc' = "record"
    /\ UNCHANGED <<data, options, detail, sdata, loaded, state_file, lib_dirs, failed_libraries,
                   i, exit_status, run, log, prev>>

\* lines 842-847, 855-857: a postprocess object without 'type' or 'file'
PostSchemaError ==
    /\ pc = "post"
    /\ data[i].postprocess = "untyped"
    /\ Exit(255)
    /\ log' = Append(log, Event("abort", i))
    /\ UNCHANGED <<data, options, detail, sdata, loaded, state_file, lib_dirs, failed_libraries,
                   i, run, prev>>

\* Mutant of PostProcess: the result of the patch or script is ignored.
PostProcess_IgnoresFailure ==
    /\ pc = "post"
    /\ data[i].postprocess \notin {"null", "untyped"}
    /\ \E ok \in BOOLEAN :
          /\ pc' = "record"
          /\ log' = Append(log, Event(IF ok THEN "post_ok" ELSE "post_fail", i))
          /\ UNCHANGED <<failed_libraries, i, exit_status>>
    /\ UNCHANGED <<data, options, detail, sdata, loaded, state_file, lib_dirs, run, prev>>

\* lines 851-854: applyPatchFile / runPythonScript
PostProcess ==
    /\ pc = "post"
    /\ data[i].postprocess \notin {"null", "untyped"}
    /\ \E ok \in BOOLEAN :
          IF ok
          THEN /\ pc' = "record"
               /\ log' = Append(log, Event("post_ok", i))
               /\ UNCHANGED <<failed_libraries, i, exit_status>>
          ELSE /\ log' = Append(log, Event("post_fail", i))
               /\ HandleFailure(data[i].name)
    /\ UNCHANGED <<data, options, detail, sdata, loaded, state_file, lib_dirs, run, prev>>

\* Mutant of RecordState: the cached state is appended to but not written.
RecordState_NoWrite ==
    /\ pc = "record"
    /\ sdata' = Append(sdata, data[i])
    /\ i' = i + 1
    /\ pc' = "loop"
    /\ log' = Append(log, Event("cached", i))
    /\ UNCHANGED <<data, options, detail, loaded, state_file, lib_dirs, failed_libraries,
                   exit_status, run, prev>>

\* lines 859-863: add to the cached state and write it out
RecordState ==
    /\ pc = "record"
    /\ sdata' = Append(sdata, data[i])
    /\ state_file' = <<sdata'>>
    /\ i' = i + 1
    /\ pc' = "loop"
    /\ log' = Append(log, Event("cached", i))
    /\ UNCHANGED <<data, options, detail, loaded, lib_dirs, failed_libraries, exit_status, run, prev>>

\* Mutant of Finish: the failure list does not reach the exit status.
Finish_IgnoresFailures ==
    /\ pc = "loop" /\ i > Len(data)
    /\ IF state_file = <<>> THEN Exit(1) ELSE Exit(0)
    /\ UNCHANGED <<data, options, detail, sdata, loaded, state_file, lib_dirs, failed_libraries,
                   i, run, log, prev>>

\* lines 877-889: the end of main()
Finish ==
    /\ pc = "loop" /\ i > Len(data)
    /\ IF failed_libraries # <<>> THEN Exit(255)
       ELSE IF state_file = <<>> THEN Exit(1)   \* os.utime raises FileNotFoundError
       ELSE Exit(0)
    /\ UNCHANGED <<data, options, detail, sdata, loaded, state_file, lib_dirs, failed_libraries,
                   i, run, log, prev>>

\* The process is killed (user interrupt outside the try block, power loss).
Interrupt ==
    /\ pc \in {"loop", "libdir", "source", "fallback", "post", "record"}
    /\ Exit(137)
    /\ UNCHANGED <<data, options, detail, sdata, loaded, state_file, lib_dirs, failed_libraries,
                   i, run, log, prev>>

\* The manifests a user can turn m into by editing one field of one entry
\* (the edited entry keeps its name and stays well-formed).
EditedManifests(m) ==
    UNION {{[m EXCEPT ![j] = e] :
               e \in {x \in Libraries :
                         /\ x.name = m[j].name
                         /\ x.source # "untyped" /\ x.postprocess # "untyped"
                         /\ Cardinality({f \in {"source", "revision", "postprocess"} :
                                            x[f] # m[j][f]}) = 1}}
           : j \in 1..Len(m)}

\* How the previous run ended: "success" (exit status 0), "crash" (the loop
\* ended with no failed library but main() raised), "other".
Outcome ==
    IF exit_status = <<0>> THEN "success"
    ELSE IF exit_status = <<1>> THEN "crash"
    ELSE "other"

\* The script is started again with the same options except --clean.  Between
\* the runs the user leaves everything alone, asks for --clean, edits one
\* manifest entry, or removes one library directory.
NextRun ==
    /\ pc = "exited"
    /\ run < MaxRuns
    /\ run' = run + 1
    /\ \/ /\ opt_clean' \in BOOLEAN
          /\ data' = data
          /\ lib_dirs' = lib_dirs
          /\ prev' = [data |-> data, outcome |-> Outcome,
                      unfinished |-> Unfinished, removed |-> {}]
       \/ /\ opt_clean' = FALSE
          /\ data' \in EditedManifests(data)
          /\ lib_dirs' = lib_dirs
          /\ prev' = [data |-> data, outcome |-> Outcome,
                      unfinished |-> Unfinished, removed |-> {}]
       \/ \E n \in lib_dirs :
             /\ opt_clean' = FALSE
             /\ data' = data
             /\ lib_dirs' = lib_dirs \ {n}
             /\ prev' = [data |-> data, outcome |-> Outcome,
                         unfinished |-> Unfinished, removed |-> {n}]
    /\ sdata' = <<>>
    /\ loaded' = <<>>
    /\ failed_libraries' = <<>>
    /\ i' = 1
    /\ pc' = "start"
    /\ exit_status' = <<>>
    /\ log' = <<>>
    /\ UNCHANGED <<break_on_first_error, FALLBACK_URL, force_fallback, skip_libs,
                   opt_names, state_file, detail>>

Next ==
    \/ ConfigError
    \/ LoadState
    \/ SkipLibrary
    \/ CacheHit
    \/ CacheMiss
    \/ CreateLibDir
    \/ NoSource
    \/ SourceSchemaError
    \/ PrimaryAcquire
    \/ ForceFallback
    \/ FallbackAcquire
    \/ NoPost
    \/ PostSchemaError
    \/ PostProcess
    \/ RecordState
    \/ Finish
    \/ Interrupt
    \/ NextRun

Spec == Init /\ [][Next]_vars

\* ------------------------------------------------ manifests with repeated names
\* Neither the sanity checks nor the merge (lines 648-680) look for a name
\* that occurs twice in the canonical manifest, so main() can loop over
\* a manifest with repeated names.  SpecDup is Spec started on such manifests.
MaxDup == 3

DupShapes == {<<"null", "null">>, <<"archive", "patch">>, <<"untyped", "null">>,
              <<"archive", "untyped">>}

DupLibraries == {Library(n, sh[1], 1, sh[2]) : n \in Names, sh \in DupShapes}

\* Every list of up to MaxDup entries; names are interchangeable, so the first
\* entry is the one named LibNames[1].
DupManifests ==
    UNION {{m \in [1..len -> DupLibraries] : m[1].name = LibNames[1]} : len \in 1..MaxDup}

\* The command lines SpecDup is started with, as <<FALLBACK_URL, force_fallback,
\* skip_libs, opt_names>>.
DupOptions == {<<"", TRUE, {}, {}>>, <<"mirror", TRUE, {LibNames[1]}, {}>>,
               <<"mirror", FALSE, {}, {}>>}

InitDup ==
    /\ data \in DupManifests
    /\ opt_clean = FALSE
    /\ break_on_first_error \in BOOLEAN
    /\ \E o \in DupOptions :
          /\ FALLBACK_URL = o[1]
          /\ force_fallback = o[2]
          /\ skip_libs = o[3]
          /\ opt_names = o[4]
    /\ sdata = <<>>
    /\ loaded = <<>>
    /\ state_file = <<>>
    /\ lib_dirs = {}
    /\ failed_libraries = <<>>
    /\ i = 1
    /\ pc = "start"
    /\ exit_status = <<>>
    /\ run = 1
    /\ log = <<>>
    /\ prev = NoPrev
    /\ NoDetail

SpecDup == InitDup /\ [][Next]_vars

\* ------------------------------------------------------------ termination
\* The steps of main() itself.  The interpreter runs them one after the
\* other, and every external operation is taken to return, so a step that
\* is possible is eventually taken; Interrupt and NextRun are left to the
\* user.
RunStep ==
    \/ ConfigError
    \/ LoadState
    \/ SkipLibrary
    \/ CacheHit
    \/ CacheMiss
    \/ CreateLibDir
    \/ NoSource
    \/ SourceSchemaError
    \/ PrimaryAcquire
    \/ ForceFallback
    \/ FallbackAcquire
    \/ NoPost
    \/ PostSchemaError
    \/ PostProcess
    \/ RecordState
    \/ Finish

\* The runs of Spec under the command lines of DupOptions.
InitLive ==
    /\ data \in Manifests
    /\ opt_clean = FALSE
    /\ break_on_first_error \in BOOLEAN
    /\ \E o \in DupOptions :
          /\ FALLBACK_URL = o[1]
          /\ force_fallback = o[2]
          /\ skip_libs = o[3]
          /\ opt_names = o[4]
    /\ sdata = <<>>
    /\ loaded = <<>>
    /\ state_file = <<>>
    /\ lib_dirs = {}
    /\ failed_libraries = <<>>
    /\ i = 1
    /\ pc = "start"
    /\ exit_status = <<>>
    /\ run = 1
    /\ log = <<>>
    /\ prev = NoPrev
    /\ NoDetail

SpecLive == InitLive /\ [][Next]_vars /\ WF_vars(RunStep)

\* ------------------------------------------ manifest loading and merging
\* The values of library.get('name', None) in the manifests read: absent
\* (None), the empty string, and three names.
EntryNames == {None, ""} \cup {LibNames[j] : j \in 1..3}

\* Canonical entries carry a source and a postprocess object, local entries
\* carry neither, so a replaced entry is told from a field-wise merged one.
CanonicalEntries == {Library(n, "archive", 1, "patch") : n \in EntryNames}

LocalEntries == {Library(n, "null", r, "null") : n \in EntryNames, r \in 1..MaxRev}

ListsOf(S) == UNION {[1..len -> S] : len \in 0..MaxEntries}

\* Mutant of MergeOne: the fields of the local entry are laid over the
\* canonical entry one by one, absent fields keeping the canonical value.
MergeOne_FieldMerge(d, local_library) ==
    IF \E n \in DOMAIN d : d[n].name = local_library.name
    THEN [n \in DOMAIN d |->
             IF d[n].name = local_library.name
             THEN [d[n] EXCEPT
                      !.source = IF local_library.source = "null" THEN @
                                 ELSE local_library.source,
                      !.revision = local_library.revision,
                      !.postprocess = IF local_library.postprocess = "null" THEN @
                                      ELSE local_library.postprocess]
             ELSE d[n]]
    ELSE Append(d, local_library)

\* lines 672-680: one local entry overwrites every entry of its name in
\* data, or is appended when there is none.
MergeOne(d, local_library) ==
    IF \E n \in DOMAIN d : d[n].name = local_library.name
    THEN [n \in DOMAIN d |->
             IF d[n].name = local_library.name THEN local_library ELSE d[n]]
    ELSE Append(d, local_library)

RECURSIVE Merge(_, _)
\* lines 671-680: the local entries are merged one after the other.
Merge(d, l) == IF l = <<>> THEN d ELSE Merge(MergeOne(d, Head(l)), Tail(l))

\* The variables of the run that loading and merging do not touch.
NoRun ==
    /\ opt_clean = FALSE
    /\ break_on_first_error = FALSE
    /\ FALLBACK_URL = ""
    /\ force_fallback = FALSE
    /\ skip_libs = {}
    /\ opt_names = {}
    /\ sdata = <<>>
    /\ loaded = <<>>
    /\ state_file = <<>>
    /\ lib_dirs = {}
    /\ failed_libraries = <<>>
    /\ i = 1
    /\ exit_status = <<>>
    /\ run = 1
    /\ log = <<>>
    /\ prev = NoPrev

\* main() at line 645: both manifest files parse as JSON lists.
InitMerge ==
    /\ data \in ListsOf(CanonicalEntries)
    /\ canonical = data
    /\ sources = <<>>
    /\ local_data \in {<<>>} \cup {<<l>> : l \in ListsOf(LocalEntries)}
    /\ pc = "sanity"
    /\ NoRun
    /\ source = NoSourceObject
    /\ extract_dir = ""
    /\ src_dir = <<>>
    /\ archive_dir = <<>>
    /\ snapshot_dir = <<>>
    /\ opt_clean_archives = FALSE
    /\ create_repo_snapshots = FALSE
    /\ dl_calls = <<>>
    /\ NoExtraction
    /\ NoCommands
    /\ NoDirs

mergeFrame == <<opt_clean, break_on_first_error, FALLBACK_URL, force_fallback,
                skip_libs, opt_names, sdata, loaded, state_file, lib_dirs,
                failed_libraries, i, run, log, prev, local_data, source, extract_dir,
                src_dir, archive_dir, snapshot_dir, opt_clean_archives,
                create_repo_snapshots, dl_calls, canonical, sources, dirVars,
                extractVars,
                toolVars>>

\* lines 649-653: the canonical entries must have a 'name'
SanityCheck ==
    /\ pc = "sanity"
    /\ IF \E n \in DOMAIN data : data[n].name = None
       THEN Exit(255)
       ELSE pc' = "local_sanity" /\ UNCHANGED exit_status
    /\ UNCHANGED <<data, mergeFrame>>

\* lines 655-667: the local entries, if a local manifest is given, too
LocalSanityCheck ==
    /\ pc = "local_sanity"
    /\ IF local_data # <<>> /\ \E n \in DOMAIN local_data[1] : local_data[1][n].name = None
       THEN Exit(255)
       ELSE pc' = "merge" /\ UNCHANGED exit_status
    /\ UNCHANGED <<data, mergeFrame>>

\* lines 669-680: merge; main() goes on to the processing loop with data
MergeLocalData ==
    /\ pc = "merge"
    /\ data' = IF local_data # <<>> THEN Merge(data, local_data[1]) ELSE data
    /\ pc' = "merged"
    /\ UNCHANGED <<exit_status, mergeFrame>>

NextMerge ==
    \/ SanityCheck
    \/ LocalSanityCheck
    \/ MergeLocalData

SpecMerge == InitMerge /\ [][NextMerge]_vars

\* ------------------------------------- one library's acquisition, by file
\* The library of this part of the model is LibNames[1]; SRC_DIR also holds
\* the workspace of another library, LibNames[2], and may hold a folder that
\* no library is named after.
Dirs == {LibNames[1], LibNames[2], "pkg"}

\* File contents: the empty file and two different non-empty contents.
Contents == {"", "c1", "c2"}

\* computeFileHash: the lowercase hex digest of a content.
Sha1(content) ==
    CASE content = "" -> "da39"
      [] content = "c1" -> "aa11"
      [] content = "c2" -> "bb22"

\* The values of source.get('sha1', None): absent, empty, the digest of c1,
\* and the same digest written in upper case.
Sha1Values == {None, "", "aa11", "AA11"}

\* What a request to a server ends in: an error, or a body (which may be
\* empty, and then is no archive).
Responses == {"fail", "", "c1", "c2"}

\* A file of a directory: <<name, content>>.  Stale is a file left in a
\* workspace that no source of the model delivers.
Stale == <<"old", "x">>

\* A file of the SRC_DIR folder that no library is named after.
Stray == <<"stray", "x">>

FileNames(files) == {f[1] : f \in files}

\* The version control systems of cloneRepository.
VCS == {"git", "hg", "svn"}

\* The values of source.get('revision', None).
Revisions == {None, "", "r1"}

\* A url is the sequence of its origin and its path components.
\* os.path.split(p.path)[1], os.path.basename(src_url): the file name.
FileNameRel(url) == url[Len(url)]

\* The source objects of the model (all well-formed).
LibSources ==
    {NoSourceObject}
    \cup {[type |-> t, url |-> u, sha1 |-> h, revision |-> None] :
             t \in {"sourcefile"}, u \in {<<"origin", "f.txt">>}, h \in Sha1Values}
    \cup {[type |-> t, url |-> u, sha1 |-> h, revision |-> None] :
             t \in {"archive"}, u \in {<<"origin", "pkg.zip">>}, h \in Sha1Values}
    \cup {[type |-> t, url |-> u, sha1 |-> None, revision |-> r] :
             t \in VCS, u \in {<<"origin", "repo">>}, r \in Revisions}

\* lines 769-772, 790-793, 824-825: the url of a file on the mirror.
FallbackSrcUrl(dir_base, filename_rel) == <<FALLBACK_URL, dir_base, filename_rel>>

\* Mutant of DownloadFile: a cached file whose digest differs is kept.
DownloadFile_KeepsStale(cache, sha1_hash, force_download, response) ==
    LET verify == sha1_hash # None /\ sha1_hash # ""
        download == cache = <<>> \/ force_download
        file == IF ~download THEN cache
                ELSE IF response = "fail" THEN <<"">> ELSE <<response>>
    IN [downloaded |-> download,
        raised |-> \/ (download /\ response = "fail")
                   \/ (verify /\ Sha1(file[1]) # sha1_hash),
        file |-> file]

\* Mutant of DownloadFile: an empty sha1 string is compared like a digest.
DownloadFile_EmptyIsDigest(cache, sha1_hash, force_download, response) ==
    LET verify == sha1_hash # None
        force == force_download \/ (cache # <<>> /\ verify /\ Sha1(cache[1]) # sha1_hash)
        download == cache = <<>> \/ force
        file == IF ~download THEN cache
                ELSE IF response = "fail" THEN <<"">> ELSE <<response>>
    IN [downloaded |-> download,
        raised |-> \/ (download /\ response = "fail")
                   \/ (verify /\ Sha1(file[1]) # sha1_hash),
        file |-> file]

\* The result of one downloadFile call on the file `cache` of the download
\* directory: whether it raised, whether it went to the network, and the file
\* afterwards.  Line 370 opens (creates or truncates) the target before the
\* request is made, so a failed request leaves an empty file.
DownloadFile(cache, sha1_hash, force_download, response) ==
    LET verify == sha1_hash # None /\ sha1_hash # ""
        force == force_download \/ (cache # <<>> /\ verify /\ Sha1(cache[1]) # sha1_hash)
        download == cache = <<>> \/ force
        file == IF ~download THEN cache
                ELSE IF response = "fail" THEN <<"">> ELSE <<response>>
    IN [downloaded |-> download,
        raised |-> \/ (download /\ response = "fail")
                   \/ (verify /\ Sha1(file[1]) # sha1_hash),
        file |-> file]

\* The record of a downloadFile call kept in dl_calls.
Call(which, url, cache, sha1_hash, force_download, response, r) ==
    [which |-> which, url |-> url, cache |-> cache, sha1_hash |-> sha1_hash,
     force_download |-> force_download, response |-> response,
     downloaded |-> r.downloaded, raised |-> r.raised, file |-> r.file]

\* shutil.copyfile into a directory: the file of that name is replaced.
CopyFile(files, fname, content) ==
    {f \in files : f[1] # fname} \cup {<<fname, content>>}

\* The entry of a checkout that its version control system keeps its data in.
Marker(type) == "." \o type

\* The files an archive of the given content unpacks to.  A snapshot of
\* content c1 holds a checkout, every other archive holds one member.
Members(type, content) ==
    IF type \in VCS /\ content = "c1"
    THEN {<<Marker(type), "snapshot">>, <<"tracked", "snapshot">>}
    ELSE {<<"m", content>>}

\* extractFile(filename, target_dir): the target is removed, the archive is
\* unpacked into SRC_DIR/top (the archive's top-level folder, or the stem of
\* the file name for a flat archive), on top of what is there, and that folder
\* is renamed to the target.  An empty file is no archive.
ExtractFile(tree, target, top, members, content) ==
    LET t1 == [tree EXCEPT ![target] = <<>>]
        unpacked == (IF t1[top] = <<>> THEN {}
                     ELSE {f \in t1[top][1] : f[1] \notin FileNames(members)})
                    \cup members
        t2 == [t1 EXCEPT ![top] = <<unpacked>>]
    IN IF content = "" THEN [raised |-> TRUE, tree |-> t1]
       ELSE [raised |-> FALSE,
             tree |-> IF top = target THEN t2
                      ELSE [t2 EXCEPT ![target] = t2[top], ![top] = <<>>]]

\* A command line given to executeCommand.
Cmd(tool, cmd, arg) == [tool |-> tool, cmd |-> cmd, arg |-> arg]

\* The exit statuses of the commands of one call, in the order they are run.
Exits == [1..3 -> {0, 1}]

\* Mutant of ArchiveName: the revision is left out of the file name.
ArchiveName_NoRevision(name, revision) == name \o ".tar.gz"

\* lines 801-803: the file name of the library's snapshot archive.
ArchiveName(name, revision) ==
    IF revision = None THEN name \o ".tar.gz"
    ELSE name \o "_" \o revision \o ".tar.gz"

\* Mutant of CloneRepository: an existing directory counts as a repository.
CloneRepository_NoMarkerTest(type, tree, target, revision, try_only_local_operations, results) ==
    LET target_dir_exists == tree[target] # <<>>
        repo_exists == target_dir_exists /\ Marker(type) \in FileNames(tree[target][1])
        kept == {Marker(type), "tracked"}
        fresh == <<{<<Marker(type), "HEAD">>, <<"tracked", "HEAD">>}>>
        Done(raised, t, cmds) == [raised |-> raised, tree |-> t, cmds |-> cmds]
        Fetched(clone, fetch) ==
            IF ~target_dir_exists
            THEN IF try_only_local_operations THEN Done(TRUE, tree, <<>>)
                 ELSE IF results[1] # 0
                 THEN Done(TRUE, [tree EXCEPT ![target] = <<>>], <<Cmd(type, clone, "url")>>)
                 ELSE Done(FALSE, [tree EXCEPT ![target] = fresh], <<Cmd(type, clone, "url")>>)
            ELSE IF ~try_only_local_operations
            THEN Done(results[1] # 0, tree, <<Cmd(type, fetch, "")>>)
            ELSE Done(FALSE, tree, <<>>)
        Synced(f, reset, clean, rev) ==
            LET c2 == Append(f.cmds, Cmd(type, reset, rev))
                t2 == [f.tree EXCEPT ![target] =
                          <<{x \in @[1] : x[1] \notin kept}
                            \cup {<<Marker(type), rev>>, <<"tracked", rev>>}>>]
                c3 == Append(c2, Cmd(type, clean, ""))
                t3 == [t2 EXCEPT ![target] = <<{x \in @[1] : x[1] \in kept}>>]
            IN IF f.raised THEN f
               ELSE IF results[Len(c2)] # 0 THEN Done(TRUE, f.tree, c2)
               ELSE IF results[Len(c3)] # 0 THEN Done(TRUE, t2, c3)
               ELSE Done(FALSE, t3, c3)
    IN CASE type = "hg" ->
              Synced(Fetched("clone", "pull"), "update", "purge",
                     IF revision = None THEN "" ELSE revision)
         [] type = "git" ->
              Synced(Fetched("clone", "fetch"), "reset", "clean",
                     IF revision = None THEN "HEAD" ELSE revision)
         [] type = "svn" ->
              LET f == IF try_only_local_operations THEN Done(FALSE, tree, <<>>)
                       ELSE IF results[1] # 0
                       THEN Done(TRUE, [tree EXCEPT ![target] = <<>>],
                                 <<Cmd(type, "checkout", "url")>>)
                       ELSE Done(FALSE, [tree EXCEPT ![target] = fresh],
                                 <<Cmd(type, "checkout", "url")>>)
              IN IF f.raised THEN f
                 ELSE Done(revision # None /\ revision # "", f.tree, f.cmds)
         [] OTHER -> Done(TRUE, tree, <<>>)

\* cloneRepository (lines 138-192).  For git and hg: without the marker the
\* target is removed and cloned (an error in local-only mode), with it the
\* repository is fetched or pulled unless in local-only mode; then the
\* reset/update to the revision and the clean/purge.  For svn: a checkout
\* into the removed target unless in local-only mode, then an error if a
\* revision is given.  dieIfNonZero raises at the first non-zero status.
\* What the tools do to the files: a clone or checkout leaves the checkout
\* at HEAD (nothing when it fails), reset/update puts the tracked files at
\* the revision, clean/purge removes every other file.
CloneRepository(type, tree, target, revision, try_only_local_operations, results) ==
    LET target_dir_exists == tree[target] # <<>>
        repo_exists == target_dir_exists /\ Marker(type) \in FileNames(tree[target][1])
        kept == {Marker(type), "tracked"}
        fresh == <<{<<Marker(type), "HEAD">>, <<"tracked", "HEAD">>}>>
        Done(raised, t, cmds) == [raised |-> raised, tree |-> t, cmds |-> cmds]
        Fetched(clone, fetch) ==
            IF ~repo_exists
            THEN IF try_only_local_operations THEN Done(TRUE, tree, <<>>)
                 ELSE IF results[1] # 0
                 THEN Done(TRUE, [tree EXCEPT ![target] = <<>>], <<Cmd(type, clone, "url")>>)
                 ELSE Done(FALSE, [tree EXCEPT ![target] = fresh], <<Cmd(type, clone, "url")>>)
            ELSE IF ~try_only_local_operations
            THEN Done(results[1] # 0, tree, <<Cmd(type, fetch, "")>>)
            ELSE Done(FALSE, tree, <<>>)
        Synced(f, reset, clean, rev) ==
            LET c2 == Append(f.cmds, Cmd(type, reset, rev))
                t2 == [f.tree EXCEPT ![target] =
                          <<{x \in @[1] : x[1] \notin kept}
                            \cup {<<Marker(type), rev>>, <<"tracked", rev>>}>>]
                c3 == Append(c2, Cmd(type, clean, ""))
                t3 == [t2 EXCEPT ![target] = <<{x \in @[1] : x[1] \in kept}>>]
            IN IF f.raised THEN f
               ELSE IF results[Len(c2)] # 0 THEN Done(TRUE, f.tree, c2)
               ELSE IF results[Len(c3)] # 0 THEN Done(TRUE, t2, c3)
               ELSE Done(FALSE, t3, c3)
    IN CASE type = "hg" ->
              Synced(Fetched("clone", "pull"), "update", "purge",
                     IF revision = None THEN "" ELSE revision)
         [] type = "git" ->
              Synced(Fetched("clone", "fetch"), "reset", "clean",
                     IF revision = None THEN "HEAD" ELSE revision)
         [] type = "svn" ->
              LET f == IF try_only_local_operations THEN Done(FALSE, tree, <<>>)
                       ELSE IF results[1] # 0
                       THEN Done(TRUE, [tree EXCEPT ![target] = <<>>],
                                 <<Cmd(type, "checkout", "url")>>)
                       ELSE Done(FALSE, [tree EXCEPT ![target] = fresh],
                                 <<Cmd(type, "checkout", "url")>>)
              IN IF f.raised THEN f
                 ELSE Done(revision # None /\ revision # "", f.tree, f.cmds)
         [] OTHER -> Done(TRUE, tree, <<>>)

\* The record of a cloneRepository call kept in clone_calls: its arguments,
\* whether the target held a checkout, the exit statuses the commands would
\* give, the commands it ran and whether it raised.
CloneCall(which, type, tree, target, revision, try_only_local_operations, results, r) ==
    [which |-> which, type |-> type, revision |-> revision, results |-> results,
     try_only_local_operations |-> try_only_local_operations,
     target_dir_exists |-> tree[target] # <<>>,
     checkout |-> tree[target] # <<>> /\ Marker(type) \in FileNames(tree[target][1]),
     cmds |-> r.cmds, raised |-> r.raised]

\* The snapshot files of the library in SNAPSHOT_DIR.
NoSnapshots == [n \in {ArchiveName(LibNames[1], r) : r \in Revisions} |-> <<>>]

\* The loop body of main() at line 735 for the library LibNames[1], after the
\* cache check missed on an empty cached state.
InitLib ==
    /\ source \in LibSources
    /\ \E p \in {"null", "patch"} : data = <<Library(LibNames[1], source.type, 1, p)>>
    /\ \E c \in {<<FALSE, FALSE>>, <<TRUE, FALSE>>, <<TRUE, TRUE>>} :
          opt_clean = c[1] /\ opt_clean_archives = c[2]
    /\ \E f \in {<<"", FALSE>>, <<"mirror", FALSE>>, <<"mirror", TRUE>>} :
          FALLBACK_URL = f[1] /\ force_fallback = f[2]
    /\ break_on_first_error \in BOOLEAN
    /\ create_repo_snapshots \in (IF source.type \in VCS THEN BOOLEAN ELSE {FALSE})
    /\ extract_dir \in (IF source.type = "archive" THEN Dirs ELSE {LibNames[1]})
    /\ \E wa \in {<<>>, <<{}>>, <<{Stale}>>}
                    \cup (IF source.type \in VCS
                          THEN {<<{Stale, <<Marker(source.type), "HEAD">>,
                                   <<"tracked", "HEAD">>}>>}
                          ELSE {}),
          wp \in (IF source.type = "archive" THEN {<<>>, <<{Stray}>>} ELSE {<<>>}) :
          src_dir = [d \in Dirs |->
                        CASE d = LibNames[1] -> wa
                          [] d = LibNames[2] -> <<{<<"f.txt", "c2">>}>>
                          [] OTHER -> wp]
    /\ archive_dir \in (IF source.type \in {"sourcefile", "archive"}
                        THEN {<<>>, <<"">>, <<"c1">>} ELSE {<<>>})
    /\ snapshot_dir \in
          {NoSnapshots}
          \cup (IF source.type \in VCS
                THEN {[NoSnapshots EXCEPT ![ArchiveName(LibNames[1], source.revision)] = <<"c2">>]}
                ELSE {})
    /\ dl_calls = <<>>
    /\ NoExtraction
    /\ NoCommands
    /\ NoDirs
    /\ local_data = <<>>
    /\ canonical = <<>>
    /\ sources = <<>>
    /\ skip_libs = {}
    /\ opt_names = {}
    /\ sdata = <<>>
    /\ loaded = <<>>
    /\ state_file = <<>>
    /\ lib_dirs = {}
    /\ failed_libraries = <<>>
    /\ i = 1
    /\ pc = "libdir"
    /\ exit_status = <<>>
    /\ run = 1
    /\ log = <<Event("miss", 1)>>
    /\ prev = NoPrev

libFrame == <<data, options, opt_clean_archives, create_repo_snapshots, sdata, loaded,
              state_file, lib_dirs, run, prev, local_data, source, extract_dir,
              canonical, sources, dirVars, extractVars>>

\* lines 735-741: clean the library directory, create it if necessary
ResetWorkspace ==
    /\ pc = "libdir"
    /\ src_dir' = [src_dir EXCEPT ![data[i].name] =
                      IF opt_clean \/ @ = <<>> THEN <<{}>> ELSE @]
    /\ pc' = "source"
    /\ UNCHANGED <<libFrame, toolVars, archive_dir, snapshot_dir, dl_calls, failed_libraries,
                   i, exit_status, log>>

\* Mutant of EmptySource: the directory is only created when it is missing.
EmptySource_KeepsContent ==
    /\ pc = "source"
    /\ source.type = "null"
    /\ src_dir' = [src_dir EXCEPT ![data[i].name] = IF @ = <<>> THEN <<{}>> ELSE @]
    /\ pc' = "post"
    /\ log' = Append(log, Event("nosource", i))
    /\ UNCHANGED <<libFrame, toolVars, archive_dir, snapshot_dir, dl_calls, failed_libraries,
                   i, exit_status>>

\* lines 835-838: no source, the directory is removed and made anew
EmptySource ==
    /\ pc = "source"
    /\ source.type = "null"
    /\ src_dir' = [src_dir EXCEPT ![data[i].name] = <<{}>>]
    /\ pc' = "post"
    /\ log' = Append(log, Event("nosource", i))
    /\ UNCHANGED <<libFrame, toolVars, archive_dir, snapshot_dir, dl_calls, failed_libraries,
                   i, exit_status>>

\* The end of a primary try block that raised (lines 764-777, 785-796,
\* 818-834): on to the fallback when FALLBACK_URL is set, otherwise the
\* exception goes on to the handlers of lines 864-875.
PrimaryRaised ==
    IF FALLBACK_URL # ""
    THEN /\ pc' = "fallback"
         /\ UNCHANGED <<failed_libraries, i, exit_status>>
    ELSE HandleFailure(data[i].name)

\* lines 755-763, 775-777: download the file and copy it into the workspace
SourcefilePrimary ==
    /\ pc = "source"
    /\ source.type = "sourcefile"
    /\ ~force_fallback
    /\ \E response \in Responses :
          LET r == DownloadFile(archive_dir, source.sha1, opt_clean_archives, response)
          IN /\ archive_dir' = r.file
             /\ dl_calls' = Append(dl_calls,
                                   Call("primary", source.url, archive_dir, source.sha1,
                                        opt_clean_archives, response, r))
             /\ IF ~r.raised
                THEN /\ src_dir' = [src_dir EXCEPT ![data[i].name] =
                                       <<CopyFile(@[1], FileNameRel(source.url), r.file[1])>>]
                     /\ pc' = "post"
                     /\ log' = Append(log, Event("primary_ok", i))
                     /\ UNCHANGED <<failed_libraries, i, exit_status>>
                ELSE /\ log' = Append(log, Event("primary_fail", i))
                     /\ src_dir' = IF FALLBACK_URL # "" THEN src_dir
                                   ELSE [src_dir EXCEPT ![data[i].name] = <<>>]
                     /\ PrimaryRaised
    /\ UNCHANGED <<libFrame, toolVars, snapshot_dir>>

\* Mutant of SourcefileFallback: the mirror copy is not verified.
SourcefileFallback_NoSha1 ==
    /\ pc = "fallback"
    /\ source.type = "sourcefile"
    /\ \E response \in Responses :
          LET r == DownloadFile(archive_dir, None, TRUE, response)
          IN /\ archive_dir' = r.file
             /\ dl_calls' = Append(dl_calls,
                                   Call("fallback", FallbackSrcUrl("archives", FileNameRel(source.url)),
                                        archive_dir, None, TRUE, response, r))
             /\ IF ~r.raised
                THEN /\ src_dir' = [src_dir EXCEPT ![data[i].name] =
                                       <<CopyFile(@[1], FileNameRel(source.url), r.file[1])>>]
                     /\ pc' = "post"
                     /\ log' = Append(log, Event("fallback_ok", i))
                     /\ UNCHANGED <<failed_libraries, i, exit_status>>
                ELSE /\ src_dir' = src_dir
                     /\ log' = Append(log, Event("fallback_fail", i))
                     /\ HandleFailure(data[i].name)
    /\ UNCHANGED <<libFrame, toolVars, snapshot_dir>>

\* lines 765-774: download the file from the mirror, always anew, and copy it
SourcefileFallback ==
    /\ pc = "fallback"
    /\ source.type = "sourcefile"
    /\ \E response \in Responses :
          LET r == DownloadFile(archive_dir, source.sha1, TRUE, response)
          IN /\ archive_dir' = r.file
             /\ dl_calls' = Append(dl_calls,
                                   Call("fallback", FallbackSrcUrl("archives", FileNameRel(source.url)),
                                        archive_dir, source.sha1, TRUE, response, r))
             /\ IF ~r.raised
                THEN /\ src_dir' = [src_dir EXCEPT ![data[i].name] =
                                       <<CopyFile(@[1], FileNameRel(source.url), r.file[1])>>]
                     /\ pc' = "post"
                     /\ log' = Append(log, Event("fallback_ok", i))
                     /\ UNCHANGED <<failed_libraries, i, exit_status>>
                ELSE /\ src_dir' = src_dir
                     /\ log' = Append(log, Event("fallback_fail", i))
                     /\ HandleFailure(data[i].name)
    /\ UNCHANGED <<libFrame, toolVars, snapshot_dir>>

\* downloadAndExtractFile (lines 403-405) on the archive file: the tree and
\* whether it raised.
DownloadAndExtract(tree, r) ==
    IF r.raised THEN [raised |-> TRUE, tree |-> tree]
    ELSE ExtractFile(tree, data[i].name, extract_dir,
                     Members(source.type, r.file[1]), r.file[1])

\* lines 778-784, 795-796: download the archive and extract it
ArchivePrimary ==
    /\ pc = "source"
    /\ source.type = "archive"
    /\ ~force_fallback
    /\ \E response \in Responses :
          LET r == DownloadFile(archive_dir, source.sha1, opt_clean_archives, response)
              x == DownloadAndExtract(src_dir, r)
          IN /\ archive_dir' = r.file
             /\ dl_calls' = Append(dl_calls,
                                   Call("primary", source.url, archive_dir, source.sha1,
                                        opt_clean_archives, response, r))
             /\ src_dir' = x.tree
             /\ IF ~x.raised
                THEN /\ pc' = "post"
                     /\ log' = Append(log, Event("primary_ok", i))
                     /\ UNCHANGED <<failed_libraries, i, exit_status>>
                ELSE /\ log' = Append(log, Event("primary_fail", i))
                     /\ PrimaryRaised
    /\ UNCHANGED <<libFrame, toolVars, snapshot_dir>>

\* Mutant of ArchiveFallback: a cached archive file is reused.
ArchiveFallback_ReusesCache ==
    /\ pc = "fallback"
    /\ source.type = "archive"
    /\ \E response \in Responses :
          LET r == DownloadFile(archive_dir, source.sha1, opt_clean_archives, response)
              x == DownloadAndExtract(src_dir, r)
          IN /\ archive_dir' = r.file
             /\ dl_calls' = Append(dl_calls,
                                   Call("fallback", FallbackSrcUrl("archives", FileNameRel(source.url)),
                                        archive_dir, source.sha1, opt_clean_archives, response, r))
             /\ src_dir' = x.tree
             /\ IF ~x.raised
                THEN /\ pc' = "post"
                     /\ log' = Append(log, Event("fallback_ok", i))
                     /\ UNCHANGED <<failed_libraries, i, exit_status>>
                ELSE /\ log' = Append(log, Event("fallback_fail", i))
                     /\ HandleFailure(data[i].name)
    /\ UNCHANGED <<libFrame, toolVars, snapshot_dir>>

\* lines 786-794: download the archive from the mirror, always anew, extract
ArchiveFallback ==
    /\ pc = "fallback"
    /\ source.type = "archive"
    /\ \E response \in Responses :
          LET r == DownloadFile(archive_dir, source.sha1, TRUE, response)
              x == DownloadAndExtract(src_dir, r)
          IN /\ archive_dir' = r.file
             /\ dl_calls' = Append(dl_calls,
                                   Call("fallback", FallbackSrcUrl("archives", FileNameRel(source.url)),
                                        archive_dir, source.sha1, TRUE, response, r))
             /\ src_dir' = x.tree
             /\ IF ~x.raised
                THEN /\ pc' = "post"
                     /\ log' = Append(log, Event("fallback_ok", i))
                     /\ UNCHANGED <<failed_libraries, i, exit_status>>
                ELSE /\ log' = Append(log, Event("fallback_fail", i))
                     /\ HandleFailure(data[i].name)
    /\ UNCHANGED <<libFrame, toolVars, snapshot_dir>>

\* lines 798-816, 833-834: clone or update the repository, then write the
\* snapshot archive when --repo-snapshots is given; an exception of either
\* leaves the try block.
RepositoryPrimary ==
    /\ pc = "source"
    /\ source.type \in VCS
    /\ ~force_fallback
    /\ \E results \in Exits, snapshot_ok \in BOOLEAN :
          LET archive_name == ArchiveName(data[i].name, source.revision)
              r == CloneRepository(source.type, src_dir, data[i].name, source.revision,
                                   FALSE, results)
          IN /\ src_dir' = r.tree
             /\ commands' = commands \o r.cmds
             /\ clone_calls' = Append(clone_calls,
                                      CloneCall("primary", source.type, src_dir, data[i].name,
                                                source.revision, FALSE, results, r))
             /\ IF r.raised
                THEN /\ log' = Append(log, Event("primary_fail", i))
                     /\ snapshot_dir' = snapshot_dir
                     /\ PrimaryRaised
                ELSE IF create_repo_snapshots /\ ~snapshot_ok
                THEN /\ log' = log \o <<Event("primary_ok", i), Event("snapshot_fail", i)>>
                     /\ snapshot_dir' = snapshot_dir
                     /\ PrimaryRaised
                ELSE /\ log' = Append(log, Event("primary_ok", i))
                     /\ snapshot_dir' = IF create_repo_snapshots
                                        THEN [snapshot_dir EXCEPT ![archive_name] = <<"c1">>]
                                        ELSE snapshot_dir
                     /\ pc' = "post"
                     /\ UNCHANGED <<failed_libraries, i, exit_status>>
    /\ UNCHANGED <<libFrame, patch_calls, archive_dir, dl_calls>>

\* lines 819-832: download the snapshot from the mirror, extract it, and
\* bring the checkout to the revision with local operations only
RepositoryFallback ==
    /\ pc = "fallback"
    /\ source.type \in VCS
    /\ \E response \in Responses, results \in Exits :
          LET archive_name == ArchiveName(data[i].name, source.revision)
              r == DownloadFile(snapshot_dir[archive_name], None, TRUE, response)
              x == DownloadAndExtract(src_dir, r)
              c == IF x.raised THEN [raised |-> TRUE, tree |-> x.tree, cmds |-> <<>>]
                   ELSE CloneRepository(source.type, x.tree, data[i].name, source.revision,
                                        TRUE, results)
          IN /\ snapshot_dir' = [snapshot_dir EXCEPT ![archive_name] = r.file]
             /\ dl_calls' = Append(dl_calls,
                                   Call("fallback", FallbackSrcUrl("snapshots", archive_name),
                                        snapshot_dir[archive_name], None, TRUE, response, r))
             /\ src_dir' = c.tree
             /\ commands' = commands \o c.cmds
             /\ clone_calls' = IF x.raised THEN clone_calls
                               ELSE Append(clone_calls,
                                           CloneCall("fallback", source.type, x.tree,
                                                     data[i].name, source.revision, TRUE, results, c))
             /\ IF ~c.raised
                THEN /\ pc' = "post"
                     /\ log' = Append(log, Event("fallback_ok", i))
                     /\ UNCHANGED <<failed_libraries, i, exit_status>>
                ELSE /\ log' = Append(log, Event("fallback_fail", i))
                     /\ HandleFailure(data[i].name)
    /\ UNCHANGED <<libFrame, patch_calls, archive_dir>>

\* Mutant of ApplyPatchFile: the patch is applied whatever the dry-runs say.
ApplyPatchFile_AppliesAnyway(results) ==
    LET text == Cmd("patch", "dry-run", "text")
        binary == Cmd("patch", "dry-run", "binary")
    IN IF results[1] = 0
       THEN [cmds |-> <<text, Cmd("patch", "apply", "text")>>,
             outcome |-> IF results[2] = 0 THEN "ok" ELSE "raised"]
       ELSE [cmds |-> <<text, binary, Cmd("patch", "apply", "binary")>>,
             outcome |-> IF results[3] = 0 THEN "ok" ELSE "raised"]

\* applyPatchFile (lines 408-425): a dry-run with the text-mode arguments, a
\* second one with --binary if that fails; if this fails too the dry-run is
\* repeated with its output shown and exit(255) is called, otherwise the patch
\* is applied with the arguments of the dry-run that passed.
ApplyPatchFile(results) ==
    LET text == Cmd("patch", "dry-run", "text")
        binary == Cmd("patch", "dry-run", "binary")
    IN IF results[1] = 0
       THEN [cmds |-> <<text, Cmd("patch", "apply", "text")>>,
             outcome |-> IF results[2] = 0 THEN "ok" ELSE "raised"]
       ELSE IF results[2] = 0
       THEN [cmds |-> <<text, binary, Cmd("patch", "apply", "binary")>>,
             outcome |-> IF results[3] = 0 THEN "ok" ELSE "raised"]
       ELSE [cmds |-> <<text, binary, binary>>, outcome |-> "exit"]

\* lines 851-852, 870-875: the patch of the library's postprocess; the
\* ValueError of dieIfNonZero and the SystemExit of exit(255) both reach the
\* bare `except:` of line 870.
ApplyPatch ==
    /\ pc = "post"
    /\ data[i].postprocess = "patch"
    /\ \E results \in Exits :
          LET r == ApplyPatchFile(results)
          IN /\ commands' = commands \o r.cmds
             /\ patch_calls' = Append(patch_calls, [results |-> results, cmds |-> r.cmds,
                                                    outcome |-> r.outcome])
             /\ IF r.outcome = "ok"
                THEN /\ pc' = "record"
                     /\ log' = Append(log, Event("post_ok", i))
                     /\ UNCHANGED <<failed_libraries, i, exit_status>>
                ELSE /\ log' = Append(log, Event("post_fail", i))
                     /\ HandleFailure(data[i].name)
    /\ UNCHANGED <<libFrame, clone_calls, src_dir, archive_dir, snapshot_dir, dl_calls>>

NextLib ==
    \/ ResetWorkspace
    \/ EmptySource
    \/ ForceFallback
    \/ SourcefilePrimary
    \/ SourcefileFallback
    \/ ArchivePrimary
    \/ ArchiveFallback
    \/ RepositoryPrimary
    \/ RepositoryFallback
    \/ NoPost
    \/ ApplyPatch
    \/ RecordState

SpecLib == InitLib /\ [][NextLib]_vars

\* --------------------------------------- two libraries, one download directory
\* downloadFile names the file in ARCHIVE_DIR after the last component of
\* the URL (lines 351-352), so two entries whose URLs end alike use the same
\* file.  SpecShare runs the loop over two sourcefile or archive entries whose
\* URLs end in pkg.zip, from an empty download directory and workspace;
\* archive_dir is that one file.
ShareUrls == {<<"origin", "pkg.zip">>, <<"other", "pkg.zip">>}

ShareSources ==
    {[type |-> t, url |-> u, sha1 |-> h, revision |-> None] :
        t \in {"sourcefile", "archive"}, u \in ShareUrls, h \in {None, "aa11"}}

InitShare ==
    /\ sources \in [1..2 -> ShareSources]
    /\ data = [j \in 1..2 |-> Library(LibNames[j], sources[j].type, 1, "null")]
    /\ source = NoSourceObject
    /\ \E c \in {<<FALSE, FALSE>>, <<TRUE, FALSE>>, <<TRUE, TRUE>>} :
          opt_clean = c[1] /\ opt_clean_archives = c[2]
    /\ \E f \in {<<"", FALSE>>, <<"mirror", FALSE>>, <<"mirror", TRUE>>} :
          FALLBACK_URL = f[1] /\ force_fallback = f[2]
    /\ break_on_first_error \in BOOLEAN
    /\ create_repo_snapshots = FALSE
    /\ extract_dir = "pkg"
    /\ src_dir = [d \in Dirs |-> <<>>]
    /\ archive_dir = <<>>
    /\ snapshot_dir = NoSnapshots
    /\ dl_calls = <<>>
    /\ NoExtraction
    /\ NoCommands
    /\ NoDirs
    /\ local_data = <<>>
    /\ canonical = <<>>
    /\ skip_libs = {}
    /\ opt_names = {}
    /\ sdata = <<>>
    /\ loaded = <<>>
    /\ state_file = <<>>
    /\ lib_dirs = {}
    /\ failed_libraries = <<>>
    /\ i = 1
    /\ pc = "loop"
    /\ exit_status = <<>>
    /\ run = 1
    /\ log = <<>>
    /\ prev = NoPrev

\* lines 702-733: the next entry of the manifest; its cached state does not
\* match, the cached entries of its name are removed.
NextLibrary ==
    /\ pc = "loop" /\ i <= Len(data)
    /\ ~Filtered(data[i].name)
    /\ ~CachedStateOk(data[i])
    /\ source' = sources[i]
    /\ sdata' = RemoveCachedState(sdata, data[i].name)
    /\ pc' = "libdir"
    /\ log' = Append(log, Event("miss", i))
    /\ UNCHANGED <<data, options, opt_clean_archives, create_repo_snapshots, loaded,
                   state_file, lib_dirs, run, prev, local_data, extract_dir, canonical,
                   sources, dirVars, extractVars, toolVars, src_dir, archive_dir,
                   snapshot_dir,
                   dl_calls, failed_libraries, i, exit_status>>

NextShare ==
    \/ NextLibrary
    \/ ResetWorkspace
    \/ ForceFallback
    \/ SourcefilePrimary
    \/ SourcefileFallback
    \/ ArchivePrimary
    \/ ArchiveFallback
    \/ NoPost
    \/ RecordState
    \/ Finish

SpecShare == InitShare /\ [][NextShare]_vars

\* ------------------------------------------------ the directories of a run
\* Paths are absolute, as lists of components.  SpecDirs is the option loop
\* of main() for the options that bear on directories, followed by the
\* places where a run uses a directory.
MaxArgs == 2

Cwds == {<<"home">>, <<"home", "w">>}

\* A directory as written on the command line.
DirArgs == {[abs |-> FALSE, parts |-> <<"w">>], [abs |-> TRUE, parts |-> <<"opt">>]}

\* The empty string.
EmptyArg == [abs |-> FALSE, parts |-> <<>>]

\* os.path.abspath, and os.path.join with a relative second part.
Abspath(dir, arg) == IF arg.abs THEN arg.parts ELSE dir \o arg.parts

Join(dir, base) == dir \o <<base>>

\* What the user can write: -b DIR, --base-dir DIR, --repo-snapshots,
\* --fallback-url URL.
Items ==
    {[opt |-> o, arg |-> a] : o \in {"-b", "--base-dir"}, a \in DirArgs}
    \cup {[opt |-> o, arg |-> EmptyArg] : o \in {"--repo-snapshots", "--fallback-url"}}

\* getopt.getopt with the option lists of lines 533-538: "b:" takes a value,
\* "base-dir" is declared without "=", so --base-dir gets the value "" and the
\* word after it is a positional argument, at which getopt stops.
RECURSIVE Getopt(_)
Getopt(items) ==
    IF items = <<>> THEN <<>>
    ELSE IF Head(items).opt = "--base-dir"
    THEN <<[opt |-> "--base-dir", arg |-> EmptyArg]>>
    ELSE <<Head(items)>> \o Getopt(Tail(items))

\* lines 70-77 and the defaults of main(): the module is loaded in start_dir.
InitDirs ==
    /\ argv \in UNION {[1..len -> Items] : len \in 0..MaxArgs}
    /\ opts = Getopt(argv)
    /\ cwd \in Cwds
    /\ start_dir = cwd
    /\ global_dirs = [BASE_DIR |-> cwd, SRC_DIR |-> Join(cwd, "src"),
                      ARCHIVE_DIR |-> Join(cwd, "archives"),
                      SNAPSHOT_DIR |-> Join(cwd, "snapshots"), base_dir_path |-> <<>>]
    /\ touched = {}
    /\ FALLBACK_URL = ""
    /\ create_repo_snapshots = FALSE
    /\ pc = "opts"
    /\ data = <<>>
    /\ opt_clean = FALSE
    /\ break_on_first_error = FALSE
    /\ force_fallback = FALSE
    /\ skip_libs = {}
    /\ opt_names = {}
    /\ sdata = <<>>
    /\ loaded = <<>>
    /\ state_file = <<>>
    /\ lib_dirs = {}
    /\ failed_libraries = <<>>
    /\ i = 1
    /\ exit_status = <<>>
    /\ run = 1
    /\ log = <<>>
    /\ prev = NoPrev
    /\ local_data = <<>>
    /\ source = NoSourceObject
    /\ extract_dir = ""
    /\ src_dir = <<>>
    /\ archive_dir = <<>>
    /\ snapshot_dir = <<>>
    /\ opt_clean_archives = FALSE
    /\ dl_calls = <<>>
    /\ canonical = <<>>
    /\ sources = <<>>
    /\ NoExtraction
    /\ NoCommands

dirFrame == <<data, opt_clean, break_on_first_error, force_fallback, skip_libs, opt_names,
              sdata, loaded, state_file, lib_dirs, failed_libraries, i, exit_status, run,
              log, prev, local_data, source, extract_dir, src_dir, archive_dir,
              snapshot_dir, opt_clean_archives, dl_calls, canonical, sources,
              extractVars, toolVars, argv, start_dir>>

\* lines 576-582: the globals after -b / --base-dir; SNAPSHOT_DIR is not
\* assigned (and is not in the `global` statement of line 529).
SetBaseDir(d, path) ==
    [d EXCEPT !.BASE_DIR = path, !.SRC_DIR = Join(path, "src"),
              !.ARCHIVE_DIR = Join(path, "archives"), !.base_dir_path = <<path>>]

\* lines 560-599: one iteration of the option loop
HandleOption ==
    /\ pc = "opts" /\ opts # <<>>
    /\ LET o == Head(opts)
       IN /\ global_dirs' = IF o.opt \in {"-b", "--base-dir"}
                            THEN SetBaseDir(global_dirs, Abspath(cwd, o.arg))
                            ELSE global_dirs
          /\ create_repo_snapshots' = (create_repo_snapshots \/ o.opt = "--repo-snapshots")
          /\ FALLBACK_URL' = IF o.opt = "--fallback-url" THEN "mirror" ELSE FALLBACK_URL
    /\ opts' = Tail(opts)
    /\ UNCHANGED <<dirFrame, pc, cwd, touched>>

\* lines 618-619: os.chdir(base_dir_path) when a base directory was given
ChangeDirectory ==
    /\ pc = "opts" /\ opts = <<>>
    /\ cwd' = IF global_dirs.base_dir_path # <<>> THEN global_dirs.base_dir_path[1] ELSE cwd
    /\ pc' = "mkdirs"
    /\ UNCHANGED <<dirFrame, opts, global_dirs, touched, FALLBACK_URL, create_repo_snapshots>>

\* lines 690-699: the source root and the archive cache are created
MakeDirectories ==
    /\ pc = "mkdirs"
    /\ touched' = touched \cup {<<"src", global_dirs.SRC_DIR>>,
                                <<"archives", global_dirs.ARCHIVE_DIR>>}
    /\ pc' = "libs"
    /\ UNCHANGED <<dirFrame, opts, cwd, global_dirs, FALLBACK_URL, create_repo_snapshots>>

Touch(role, path) ==
    /\ pc = "libs"
    /\ <<role, path>> \notin touched
    /\ touched' = touched \cup {<<role, path>>}
    /\ UNCHANGED <<dirFrame, pc, opts, cwd, global_dirs, FALLBACK_URL, create_repo_snapshots>>

\* lines 810-816: the snapshot of a repository is written to SNAPSHOT_DIR
CreateSnapshot == create_repo_snapshots /\ Touch("snapshot", global_dirs.SNAPSHOT_DIR)

\* lines 819-829: the snapshot of the mirror is downloaded to SNAPSHOT_DIR
SnapshotFallback == FALLBACK_URL # "" /\ Touch("fallback", global_dirs.SNAPSHOT_DIR)

\* line 413: the patch is read from BASE_DIR/patches
ReadPatch == Touch("patches", Join(global_dirs.BASE_DIR, "patches"))

NextDirs ==
    \/ HandleOption
    \/ ChangeDirectory
    \/ MakeDirectories
    \/ CreateSnapshot
    \/ SnapshotFallback
    \/ ReadPatch

SpecDirs == InitDirs /\ [][NextDirs]_vars

\* ------------------------------------------- extractFile, entry by entry
\* A file name is the sequence of its dot-separated parts.  A path below
\* SRC_DIR is a sequence of one-character strings with "/" between its
\* components; the stem of the archive's file name is one unit of a path.
MaxMembers == 2

ArchiveFileNames ==
    {<<"pkg">>, <<"pkg", "zip">>, <<"pkg", "tar">>, <<"pkg", "gz">>,
     <<"pkg", "tar", "gz">>, <<"pkg", "tar", "bz2">>, <<"pkg", "tar", "xz">>,
     <<"pkg", "xz">>, <<"pkg", "tgz">>, <<"pkg", "ZIP">>, <<"pkg", "7z">>}

\* What the bytes of the file are.
Formats == {"zip", "tar", "tar.gz", "tar.bz2", "tar.xz", "junk"}

EntryFiles ==
    {<<"m">>, <<"n">>, <<"m", "a">>, <<"m", "b">>,
     <<"t", "/", "m">>, <<"t", "/", "n">>, <<"t", "/", "m", "a">>, <<"t", "/", "m", "b">>,
     <<"t", "/", "s", "/", "m">>, <<"t", "/", "s", "/", "n">>,
     <<"u", "/", "n">>, <<"t", "a", "/", "m">>, <<"t", "b", "/", "n">>}

\* An entry of an archive: a file, or the directory entry of the folder t.
ArchiveEntries ==
    {[path |-> f, dir |-> FALSE] : f \in EntryFiles} \cup {[path |-> <<"t">>, dir |-> TRUE]}

Archives == {es \in SUBSET ArchiveEntries : Cardinality(es) <= MaxMembers}

\* os.path.splitext on a base name: the extension is the last part (kept
\* here without its dot), "" when there is no dot.
SplitExt(parts) ==
    IF Len(parts) <= 1 THEN [stem |-> parts, extension |-> ""]
    ELSE [stem |-> SubSeq(parts, 1, Len(parts) - 1), extension |-> parts[Len(parts)]]

\* A file name as one string.
RECURSIVE JoinDots(_)
JoinDots(parts) ==
    IF parts = <<>> THEN ""
    ELSE IF Len(parts) = 1 THEN parts[1]
    ELSE parts[1] \o "." \o JoinDots(Tail(parts))

\* zipfile.ZipFile / tarfile.open / lzma.decompress accept the file.
ZipOpens(fmt) == fmt = "zip"

TarOpens(fmt, lzma) == fmt \in {"tar", "tar.gz", "tar.bz2"} \/ (fmt = "tar.xz" /\ lzma)

XzDecompresses(fmt, lzma) == fmt = "tar.xz" /\ lzma

\* namelist() of a zip names a directory with a trailing "/", getnames() of a
\* tar without.
NameList(handler, es) ==
    {IF e.dir /\ handler = "zip" THEN e.path \o <<"/">> ELSE e.path : e \in es}

\* os.path.commonprefix: the longest common prefix, character by character.
CommonPrefix(names) ==
    IF names = {} THEN <<>>
    ELSE LET n0 == CHOOSE n \in names : TRUE
             lens == {k \in 0..Len(n0) :
                         \A n \in names : Len(n) >= k /\ SubSeq(n, 1, k) = SubSeq(n0, 1, k)}
         IN SubSeq(n0, 1, CHOOSE k \in lens : \A l \in lens : l <= k)

HasSlash(name) == \E k \in DOMAIN name : name[k] = "/"

\* os.path.join below SRC_DIR.
PathJoin(a, b) == IF a = <<>> THEN b ELSE a \o <<"/">> \o b

\* The directories a path lies in.
ParentDirs(path) == {SubSeq(path, 1, k - 1) : k \in {j \in DOMAIN path : path[j] = "/"}}

StripSlash(path) ==
    IF path # <<>> /\ path[Len(path)] = "/" THEN SubSeq(path, 1, Len(path) - 1) ELSE path

\* Mutant of Dispatch: every .xz file is handed to the tar branch.
Dispatch_AnyXz(parts) ==
    LET ext == SplitExt(parts).extension
    IN IF ext \in {"zip", ""} THEN "zip"
       ELSE IF ext \in {"tar", "gz", "bz2", "xz"} THEN "tar"
       ELSE "error"

\* lines 220-222, 249-259, 281-282: the branch of extractFile a file name
\* is handled by.
Dispatch(parts) ==
    LET sp == SplitExt(parts)
        ext == sp.extension
    IN IF ext \in {"zip", ""} THEN "zip"
       ELSE IF ext \in {"tar", "gz", "bz2"} THEN "tar"
       ELSE IF ext = "xz" /\ SplitExt(sp.stem).extension = "tar" THEN "tar"
       ELSE "error"

\* lines 224-235, 262-267: the folder the archive is unpacked into
\* (extract_dir_local, <<>> for SRC_DIR itself) and the folder that is
\* renamed to the target (extract_dir).
Layout(handler, names, stem) ==
    LET prefix == CommonPrefix(names)
        dir == IF handler = "zip" /\ ~\E n \in names : HasSlash(n) THEN <<>> ELSE prefix
    IN IF dir = <<>>
       THEN [extract_dir |-> <<stem>>, extract_dir_local |-> <<stem>>]
       ELSE [extract_dir |-> dir, extract_dir_local |-> <<>>]

\* lines 243, 275, 291-298: unpack the entries below SRC_DIR (empty before)
\* and rename extract_dir to the target.
UnpackAndRename(handler, es, stem) ==
    LET l == Layout(handler, NameList(handler, es), stem)
        files == {PathJoin(l.extract_dir_local, e.path) : e \in {x \in es : ~x.dir}}
        dirs == {PathJoin(l.extract_dir_local, e.path) : e \in {x \in es : x.dir}}
                \cup UNION {ParentDirs(f) : f \in files \cup
                               {PathJoin(l.extract_dir_local, e.path) : e \in es}}
        from == StripSlash(l.extract_dir)
        below == {f \in files : Len(f) > Len(from) + 1
                                /\ SubSeq(f, 1, Len(from) + 1) = from \o <<"/">>}
    IN IF from \in dirs
       THEN [raised |-> FALSE, kind |-> "dir", extract_dir |-> l.extract_dir,
             files |-> {SubSeq(f, Len(from) + 2, Len(f)) : f \in below}]
       ELSE IF from \in files /\ from = l.extract_dir
       THEN [raised |-> FALSE, kind |-> "file", extract_dir |-> l.extract_dir, files |-> {}]
       ELSE [raised |-> TRUE, kind |-> "absent", extract_dir |-> l.extract_dir, files |-> {}]

\* What extractFile did: the branch taken, whether the archive was opened,
\* whether a temporary .tar was written, whether it raised, and the target
\* afterwards (a directory with files, a plain file, or absent).
Extraction(handler, opened, tmp_tar, r) ==
    [handler |-> handler, opened |-> opened, tmp_tar |-> tmp_tar, raised |-> r.raised,
     kind |-> r.kind, extract_dir |-> r.extract_dir, files |-> r.files]

ExtractRaised == [raised |-> TRUE, kind |-> "absent", extract_dir |-> <<>>, files |-> {}]

\* extractFile (lines 215-298) on a file of the given name, bytes and entries.
\* tmp_tar: the .tar file beside a .tar.xz exists afterwards;
\* decompressTarXZFile creates it (line 201) before lzma.decompress raises.
ExtractArchive(parts, fmt, es, lzma) ==
    LET handler == Dispatch(parts)
        sp == SplitExt(parts)
        xz == handler = "tar" /\ sp.extension = "xz"
        tar_parts == IF xz THEN sp.stem ELSE parts
        tar_fmt == IF xz THEN "tar" ELSE fmt
    IN IF handler = "error" THEN Extraction(handler, FALSE, FALSE, ExtractRaised)
       ELSE IF handler = "zip"
       THEN IF ~ZipOpens(fmt) THEN Extraction(handler, FALSE, FALSE, ExtractRaised)
            ELSE Extraction(handler, TRUE, FALSE,
                            UnpackAndRename(handler, es, JoinDots(sp.stem)))
       ELSE IF xz /\ ~XzDecompresses(fmt, lzma)
       THEN Extraction(handler, FALSE, lzma, ExtractRaised)
       ELSE IF ~TarOpens(tar_fmt, lzma) THEN Extraction(handler, FALSE, xz, ExtractRaised)
       ELSE Extraction(handler, TRUE, xz,
                       UnpackAndRename(handler, es, JoinDots(SplitExt(tar_parts).stem)))

\* extractFile is called on an archive file.
InitExtract ==
    /\ filename \in ArchiveFileNames
    /\ format \in Formats
    /\ entries \in Archives
    /\ lzma_available \in BOOLEAN
    /\ extraction = <<>>
    /\ NoCommands
    /\ NoDirs
    /\ pc = "extract"
    /\ data = <<>>
    /\ NoRun
    /\ NoLib

ExtractFileCall ==
    /\ pc = "extract"
    /\ extraction' = <<ExtractArchive(filename, format, entries, lzma_available)>>
    /\ pc' = "extracted"
    /\ UNCHANGED <<data, options, sdata, loaded, state_file, lib_dirs, failed_libraries,
                   i, exit_status, run, log, prev, local_data, source, extract_dir,
                   src_dir, archive_dir, snapshot_dir, opt_clean_archives,
                   create_repo_snapshots, dl_calls, canonical, sources, dirVars,
                   filename,
                   format,
                   entries, lzma_available, toolVars>>

NextExtract == ExtractFileCall

SpecExtract == InitExtract /\ [][NextExtract]_vars

\* ------------------------------------------------- reading the event log
Range(f) == {f[k] : k \in DOMAIN f}

NamesOf(s) == {s[k].name : k \in DOMAIN s}

Has(e, j) == \E k \in DOMAIN log : log[k] = Event(e, j)

\* The content of the state-cache file (empty when the file is absent).
FileContent == IF state_file = <<>> THEN <<>> ELSE state_file[1]

AcquireOk(j) == Has("primary_ok", j) \/ Has("fallback_ok", j) \/ Has("nosource", j)

\* The library at position j ended FAILED: an exception reached the handlers
\* of lines 864-875.
Failed(j) ==
    \/ Has("post_fail", j)
    \/ Has("fallback_fail", j)
    \/ (Has("primary_fail", j) /\ FALLBACK_URL = "")

Aborted == \E k \in DOMAIN log : log[k].ev = "abort"

Interrupted == exit_status = <<137>>

Selected(j) == ~Filtered(data[j].name)

\* The library at position i is being reprocessed: the cache check missed and
\* its acquisition and post-processing have not both succeeded yet.
InFlight == pc \in {"libdir", "source", "fallback", "post"}

\* ----------------------------------------------------------------- C1
\* C1: while a library is being reprocessed the state-cache file holds no
\* entry of its name, and a library left unfinished by a run is no cache hit
\* in a following run with the same manifest and without --clean.
C1_NoStaleRecord ==
    /\ InFlight => data[i].name \notin NamesOf(FileContent)
    /\ (run > 1 /\ data = prev.data /\ ~opt_clean) =>
          \A k \in DOMAIN log :
              log[k].ev = "hit" => data[log[k].lib].name \notin prev.unfinished

\* ----------------------------------------------------------------- C2
C2_Order ==
    /\ pc = "post" => AcquireOk(i)
    /\ \A k \in DOMAIN log :
          /\ log[k].ev \in {"post_ok", "post_fail"} =>
                \E m \in 1..(k - 1) :
                    /\ log[m].lib = log[k].lib
                    /\ log[m].ev \in {"primary_ok", "fallback_ok", "nosource"}
          /\ log[k].ev = "cached" =>
                /\ \E m \in 1..(k - 1) :
                      /\ log[m].lib = log[k].lib
                      /\ log[m].ev \in {"primary_ok", "fallback_ok", "nosource"}
                /\ data[log[k].lib].postprocess # "null" =>
                      \E m \in 1..(k - 1) : log[m] = Event("post_ok", log[k].lib)
    /\ \A j \in 1..Len(data) : Failed(j) => data[j].name \notin NamesOf(sdata)

C2_Step ==
    /\ (pc # "start" /\ pc' # "start") =>
          \A e \in Range(sdata') \ Range(sdata) :
              /\ e = data[i]
              /\ AcquireOk(i)
              /\ data[i].postprocess # "null" => Has("post_ok", i)
    /\ (run' = run /\ state_file' # state_file) =>
          \A j \in 1..Len(data) : Failed(j) => data[j].name \notin NamesOf(state_file'[1])

HitCondition(library) ==
    /\ ~opt_clean
    /\ library \in Range(loaded)
    /\ library.name \in lib_dirs

C3_Step ==
    (pc = "loop" /\ i <= Len(data) /\ Selected(i) /\ pc' # "exited") =>
        IF HitCondition(data[i])
        THEN /\ i' = i + 1 /\ pc' = "loop"
             /\ log' = Append(log, Event("hit", i))
             /\ UNCHANGED <<sdata, state_file, lib_dirs>>
        ELSE /\ pc' = "libdir" /\ i' = i
             /\ log' = Append(log, Event("miss", i))
             /\ data[i].name \notin NamesOf(sdata')
             /\ \A e \in Range(sdata) : e.name # data[i].name => e \in Range(sdata')

\* C3: a selected library is skipped as a cache hit iff --clean is not set,
\* the loaded state cache holds an entry structurally equal to the manifest
\* entry and the workspace directory exists; otherwise the cached entries of
\* that name are removed and the library is reprocessed.
C3_CacheHitIff == [][C3_Step]_vars

\* A run that skipped one library as a cache hit and reprocessed another one
\* whose cached entry differs from the manifest entry.
C3_Witness ==
    \E j, k \in 1..Len(data) :
        /\ Has("hit", j)
        /\ Has("miss", k)
        /\ data[k].name \in NamesOf(loaded)
        /\ data[k] \notin Range(loaded)
        /\ data[k].name \in lib_dirs

\* ----------------------------------------------------------------- C4
\* Events of acquisition and post-processing work.
WorkEvents == {"primary_ok", "primary_fail", "fallback_ok", "fallback_fail",
               "nosource", "post_ok", "post_fail"}

\* C4: if a run reported no failed library, the next run with the same
\* manifest, without --clean and with the filesystem unchanged does no
\* acquisition and no post-processing, and exits 0.
C4_Idempotent ==
    (run > 1 /\ prev.outcome \in {"success", "crash"} /\ data = prev.data
       /\ ~opt_clean /\ prev.removed = {}) =>
        /\ \A k \in DOMAIN log : log[k].ev \in {"skip", "hit"}
        /\ (pc = "exited" /\ ~Interrupted) => exit_status = <<0>>

\* ----------------------------------------------------------------- C5
Changed == {j \in DOMAIN data : j \notin DOMAIN prev.data \/ data[j] # prev.data[j]}

VisitsOf(j) == {k \in DOMAIN log : log[k].lib = j /\ log[k].ev \in {"hit", "miss"}}

EventsOf(j, evs) == {k \in DOMAIN log : log[k].lib = j /\ log[k].ev \in evs}

\* The run ended by itself: not killed, no schema or configuration error.
RanToEnd ==
    /\ pc = "exited" /\ ~Interrupted /\ ~Aborted
    /\ ~(force_fallback /\ FALLBACK_URL = "")

FailureAt(k) ==
    \/ log[k].ev \in {"post_fail", "fallback_fail"}
    \/ (log[k].ev = "primary_fail" /\ FALLBACK_URL = "")

C8_State ==
    break_on_first_error =>
        \A k \in DOMAIN log :
            FailureAt(k) => /\ k = Len(log)
                            /\ pc = "exited"
                            /\ exit_status # <<>> /\ exit_status[1] # 0

C8_Step ==
    (break_on_first_error /\ run' = run /\ \E j \in DOMAIN data : Failed(j)) =>
        UNCHANGED <<log, sdata, state_file, lib_dirs, i>>

\* C8: with --break-on-first-error, once a library fails no later library is
\* attempted, nothing more is changed, and the process exits non-zero.
C8_BreakOnFirstError == [](C8_State) /\ [][C8_Step]_vars

C8_Witness ==
    /\ break_on_first_error /\ pc = "exited"
    /\ Len(data) = 2 /\ Failed(1) /\ Selected(2)

\* ----------------------------------------------------------------- C9
\* C9: a run with no schema or configuration error and no failed library
\* ends with exit status 0.
C9_ExitZero ==
    (RanToEnd /\ \A j \in DOMAIN data : ~Failed(j)) => exit_status = <<0>>

\* ---------------------------------------------------------------- C10
\* C10: the exit status is non-zero whenever the failure list is non-empty
\* at the end of the loop.
C10_NonZeroOnFailure ==
    (pc = "exited" /\ failed_libraries # <<>>) => exit_status[1] # 0

\* A run that cached one library, failed another and reached the end.
C10_Witness ==
    /\ RanToEnd /\ i > Len(data)
    /\ failed_libraries # <<>>
    /\ \E j \in DOMAIN data : Has("cached", j)

\* ---------------------------------------------------------------- C11
\* C11: a first run that aborts on a schema error has done no partial
\* processing: no library was acquired, post-processed or cached, no
\* workspace directory was created and the state cache is as it was loaded.
C11_NoPartialProcessing ==
    (run = 1 /\ Aborted) =>
        /\ \A k \in DOMAIN log : log[k].ev \notin WorkEvents \cup {"cached"}
        /\ lib_dirs = {}
        /\ sdata = loaded
        /\ state_file = <<>>

\* ---------------------------------------------------------------- C12
\* C12: every entry of the manifest that the processing loop receives has a
\* name that is neither absent nor the empty string.
C12_NonEmptyNames ==
    pc = "merged" => \A n \in DOMAIN data : data[n].name \notin {None, ""}

\* ---------------------------------------------------------------- C13
\* The local entries whose name no canonical entry has.
LocalOnly(c, l) == SelectSeq(l, LAMBDA e : \A n \in DOMAIN c : c[n].name # e.name)

\* The statement of C13 as written, for all lists: canonical entries in
\* order, each one with a local namesake replaced by a local entry of that
\* name, followed by all local-only entries in local order.
C13_MergeAsStated ==
    (pc = "merged" /\ local_data # <<>>) =>
        LET c == canonical
            l == local_data[1]
            lo == LocalOnly(c, l)
        IN /\ Len(data) = Len(c) + Len(lo)
           /\ \A n \in DOMAIN c :
                 IF \E k \in DOMAIN l : l[k].name = c[n].name
                 THEN \E k \in DOMAIN l : l[k].name = c[n].name /\ data[n] = l[k]
                 ELSE data[n] = c[n]
           /\ \A k \in DOMAIN lo : data[Len(c) + k] = lo[k]

\* The last entry of list l that has the given name.
LastOf(l, name) ==
    l[CHOOSE k \in DOMAIN l :
          /\ l[k].name = name
          /\ \A m \in DOMAIN l : m > k => l[m].name # name]

\* The positions of l at which a local-only name occurs for the first time.
FirstLocalOnly(c, l) ==
    {k \in DOMAIN l :
        /\ \A n \in DOMAIN c : c[n].name # l[k].name
        /\ \A m \in DOMAIN l : m < k => l[m].name # l[k].name}

\* C13 (amended): the merged manifest is the canonical list, in canonical
\* order, with each entry whose name matches a local entry replaced in place
\* by the whole last local entry of that name, followed by one entry per
\* local-only name, in the order of first occurrence in the local list, which
\* is the whole last local entry of that name.  For a local list with
\* pairwise distinct names this is the statement as written.
C13_MergeLastWins ==
    pc = "merged" =>
        IF local_data = <<>> THEN data = canonical
        ELSE LET c == canonical
                 l == local_data[1]
                 P == FirstLocalOnly(c, l)
             IN /\ Len(data) = Len(c) + Cardinality(P)
                /\ \A n \in DOMAIN c :
                      IF \E k \in DOMAIN l : l[k].name = c[n].name
                      THEN data[n] = LastOf(l, c[n].name)
                      ELSE data[n] = c[n]
                /\ \A k \in P :
                      data[Len(c) + Cardinality({m \in P : m <= k})] = LastOf(l, l[k].name)

\* Canonical [A, B] and local [B', C] were merged into [A, B', C].
C13_Witness ==
    /\ pc = "merged" /\ local_data # <<>>
    /\ Len(canonical) = 2 /\ Len(local_data[1]) = 2
    /\ canonical[1].name # canonical[2].name
    /\ local_data[1][1].name = canonical[2].name
    /\ local_data[1][1] # canonical[2]
    /\ local_data[1][2].name \notin {canonical[1].name, canonical[2].name}
    /\ data = <<canonical[1], local_data[1][1], local_data[1][2]>>

\* ---------------------------------------------------------------- C14
\* C14: whatever was done for a library (cache check, acquisition,
\* post-processing, caching) was done only if its name is not in the skip
\* list and the include list is empty or holds it; a visited library whose
\* name is in both lists was skipped and nothing else was done for it.
C14_NameFiltering ==
    \A j \in DOMAIN data :
        /\ EventsOf(j, WorkEvents \cup {"hit", "miss", "cached", "abort"}) # {} =>
              /\ data[j].name \notin skip_libs
              /\ (opt_names = {} \/ data[j].name \in opt_names)
        /\ (j < i /\ data[j].name \in skip_libs \cap opt_names) =>
              /\ Has("skip", j)
              /\ data[j].name \notin lib_dirs

\* A run over two libraries under an include list and a skip list that both
\* hold the first name: the first was skipped, and so was the second.
C14_Witness ==
    /\ Len(data) = 2 /\ i > 2 /\ run = 1
    /\ data[1].name \in skip_libs \cap opt_names
    /\ Has("skip", 1)

\* ---------------------------------------------------------------- C15
\* The fallback of the library at position j may be attempted: a fallback
\* URL is configured, and the primary acquisition failed or is forced off.
FallbackDue(j) ==
    /\ FALLBACK_URL # ""
    /\ force_fallback \/ Has("primary_fail", j)

\* C15: a fallback fetch is attempted only with a fallback URL configured
\* and after the library's primary acquisition (download, verification,
\* extraction or VCS sync) failed in this run, or under --force-fallback;
\* under --force-fallback no primary acquisition is attempted.
C15_FallbackOnlyWhenDue ==
    /\ pc = "fallback" => FallbackDue(i)
    /\ \A k \in DOMAIN log :
          log[k].ev \in {"fallback_ok", "fallback_fail"} => FallbackDue(log[k].lib)
    /\ \A k \in DOMAIN dl_calls : dl_calls[k].which = "fallback" => FallbackDue(1)
    /\ force_fallback =>
          /\ \A k \in DOMAIN log : log[k].ev \notin {"primary_ok", "primary_fail"}
          /\ \A k \in DOMAIN dl_calls : dl_calls[k].which # "primary"

\* ---------------------------------------------------------------- C16
\* The primary download of a sourcefile entry fetched a content whose digest
\* is not the entry's sha1.
HashMismatch ==
    /\ source.type = "sourcefile"
    /\ source.sha1 # None /\ source.sha1 # ""
    /\ dl_calls # <<>>
    /\ dl_calls[1].which = "primary"
    /\ dl_calls[1].downloaded /\ dl_calls[1].response # "fail"
    /\ Sha1(dl_calls[1].response) # source.sha1

\* The library of this part of the model ended failed and is not cached.
LibFailed ==
    /\ IF break_on_first_error
       THEN pc = "exited" /\ exit_status = <<255>>
       ELSE pc = "loop" /\ failed_libraries = <<data[1].name>>
    /\ sdata = <<>> /\ state_file = <<>>

\* C16: after a sourcefile download whose content does not match sha1: with
\* no fallback URL the library fails, is not cached and its workspace holds no
\* copy of the file; with a fallback URL the mirror download is attempted with
\* the same sha1, the library is cached only with a mirror copy that matches
\* it, and fails when the mirror copy does not.
C16_HashMismatch ==
    HashMismatch =>
        /\ dl_calls[1].raised
        /\ FALLBACK_URL = "" =>
              /\ Len(dl_calls) = 1
              /\ LibFailed
              /\ src_dir[data[1].name] = <<>>
        /\ FALLBACK_URL # "" =>
              \/ pc = "fallback" /\ Len(dl_calls) = 1
              \/ /\ Len(dl_calls) = 2
                 /\ dl_calls[2].which = "fallback"
                 /\ dl_calls[2].sha1_hash = source.sha1
                 /\ dl_calls[2].downloaded
                 /\ IF dl_calls[2].response # "fail"
                       /\ Sha1(dl_calls[2].response) = source.sha1
                    THEN /\ ~Has("fallback_fail", 1)
                         /\ <<FileNameRel(source.url), dl_calls[2].response>>
                               \in src_dir[data[1].name][1]
                    ELSE LibFailed /\ ~Has("cached", 1)

\* The primary copy did not match, the mirror copy did, the library is cached.
C16_Witness ==
    /\ HashMismatch /\ FALLBACK_URL # ""
    /\ Len(dl_calls) = 2
    /\ dl_calls[2].response # "fail"
    /\ Sha1(dl_calls[2].response) = source.sha1
    /\ Has("cached", 1)

\* ---------------------------------------------------------------- C17
\* C17: every downloadFile call that returns leaves a file, and its sha1 is
\* absent, empty or the digest of that file; with an absent or empty sha1 the
\* call goes to the network iff the file is missing or force_download is set,
\* and raises iff that request fails.
C17_DownloadVerifies ==
    \A k \in DOMAIN dl_calls :
        LET c == dl_calls[k]
        IN /\ ~c.raised =>
                 /\ c.file # <<>>
                 /\ c.sha1_hash = None \/ c.sha1_hash = "" \/ Sha1(c.file[1]) = c.sha1_hash
           /\ c.sha1_hash \in {None, ""} =>
                 /\ c.downloaded <=> (c.cache = <<>> \/ c.force_download)
                 /\ c.raised <=> (c.downloaded /\ c.response = "fail")

\* A call found a cached file of another digest, downloaded anew and
\* returned the file of the requested digest.
C17_Witness ==
    \E k \in DOMAIN dl_calls :
        /\ dl_calls[k].cache # <<>>
        /\ Sha1(dl_calls[k].cache[1]) # dl_calls[k].sha1_hash
        /\ ~dl_calls[k].force_download
        /\ dl_calls[k].downloaded /\ ~dl_calls[k].raised
        /\ Sha1(dl_calls[k].file[1]) = dl_calls[k].sha1_hash

\* ---------------------------------------------------------------- C18
\* C18: once a reprocessed library is cached, its workspace holds no file
\* that was in it before the reprocessing began.
C18_RecreatedFromScratch ==
    Has("cached", 1) => Stale \notin src_dir[data[1].name][1]

\* ---------------------------------------------------------------- C19
\* C19: no step of processing a library changes the workspace directory of
\* a library of another name.
C19_OtherWorkspaceUntouched ==
    [][src_dir'[LibNames[2]] = src_dir[LibNames[2]]]_vars

\* ---------------------------------------------------------------- C20
\* C20: for an entry without a source the workspace directory exists and is
\* empty when the acquisition has ended, and still when the processing has
\* ended if the entry has no postprocess either.
C20_EmptySourceEmptyWorkspace ==
    source.type = "null" =>
        /\ pc = "post" => src_dir[data[1].name] = <<{}>>
        /\ (data[1].postprocess = "null" /\ pc \in {"record", "loop"}) =>
              src_dir[data[1].name] = <<{}>>

\* An entry without source and postprocess was processed and cached without
\* --clean.
C20_Witness ==
    /\ source.type = "null" /\ data[1].postprocess = "null" /\ ~opt_clean
    /\ Has("cached", 1)
    /\ src_dir[data[1].name] = <<{}>>

\* ---------------------------------------------------------------- C21
\* C21: after extractFile returned successfully for an archive library, its
\* workspace holds the members of the extracted archive and no file that was
\* on disk before the call.
C21_OnlyArchiveContent ==
    (/\ source.type = "archive"
     /\ pc = "post"
     /\ (Has("primary_ok", 1) \/ Has("fallback_ok", 1)))
    => src_dir[LibNames[1]] = <<Members(source.type, archive_dir[1])>>

\* ---------------------------------------------------------------- C22
FirstComponent(path) ==
    IF HasSlash(path)
    THEN SubSeq(path, 1, (CHOOSE k \in DOMAIN path :
                             path[k] = "/" /\ \A j \in 1..(k - 1) : path[j] # "/") - 1)
    ELSE path

IsBelow(path, folder) ==
    Len(path) > Len(folder) + 1 /\ SubSeq(path, 1, Len(folder) + 1) = folder \o <<"/">>

\* All entries lie under one top-level folder.
SingleTopFolder(es) ==
    \E e0 \in es :
        LET top == FirstComponent(e0.path)
        IN \A e \in es : (e.dir /\ e.path = top) \/ IsBelow(e.path, top)

\* The workspace the normalization is stated to give.
Normalized(es) ==
    LET files == {e.path : e \in {x \in es : ~x.dir}}
    IN IF SingleTopFolder(es)
       THEN LET top == FirstComponent((CHOOSE e \in es : TRUE).path)
            IN {SubSeq(f, Len(top) + 2, Len(f)) : f \in files}
       ELSE files

\* C22: an archive that extractFile could open ends as a workspace directory
\* holding the contents of its single top-level folder, or, when the entries
\* do not lie under one top-level folder, all its entries.
C22_LayoutNormalized ==
    (extraction # <<>> /\ extraction[1].opened)
    => /\ ~extraction[1].raised
       /\ extraction[1].kind = "dir"
       /\ extraction[1].files = Normalized(entries)

\* ---------------------------------------------------------------- C23
\* The library is an svn entry with a non-empty revision.
SvnWithRevision == source.type = "svn" /\ source.revision # None /\ source.revision # ""

\* C23: for an svn entry with a non-empty revision no svn checkout is run,
\* no fallback fetch is made, and the library never joins the state cache.
C23_SvnRevisionRejected ==
    SvnWithRevision =>
        /\ \A k \in DOMAIN commands : commands[k].cmd # "checkout"
        /\ \A k \in DOMAIN dl_calls : dl_calls[k].which # "fallback"
        /\ sdata = <<>> /\ state_file = <<>>

\* ---------------------------------------------------------------- C24
\* The snapshot name as the protocol states it.
SnapshotName ==
    IF source.revision = None THEN data[1].name \o ".tar.gz"
    ELSE data[1].name \o "_" \o source.revision \o ".tar.gz"

LastCall == dl_calls[Len(dl_calls)]

LastClone == clone_calls[Len(clone_calls)]

\* A VCS library that is cached after a fallback went through the three
\* steps: the snapshot of the stated name was fetched from the mirror, and
\* the sync that followed ran in local-only mode and returned.
C24_State ==
    source.type \in VCS =>
        /\ \A k \in DOMAIN dl_calls :
              /\ dl_calls[k].which = "fallback"
              /\ dl_calls[k].url = <<FALLBACK_URL, "snapshots", SnapshotName>>
        /\ (Has("fallback_ok", 1) \/ (Has("cached", 1) /\ ~Has("primary_ok", 1))) =>
              /\ dl_calls # <<>> /\ ~LastCall.raised /\ LastCall.file # <<"">>
              /\ clone_calls # <<>>
              /\ LastClone.which = "fallback" /\ LastClone.try_only_local_operations
              /\ ~LastClone.raised

\* The producer writes the snapshot file of the stated name and no other;
\* in a fallback a failed download is followed by no extraction and no sync,
\* a failed extraction by no sync, and the sync works on the extracted
\* snapshot.
C24_Step ==
    source.type \in VCS =>
        /\ (pc = "source" /\ pc' = "post" /\ create_repo_snapshots) =>
              /\ SnapshotName \in DOMAIN snapshot_dir'
              /\ snapshot_dir'[SnapshotName] # <<>>
              /\ \A n \in DOMAIN snapshot_dir :
                    n # SnapshotName => snapshot_dir'[n] = snapshot_dir[n]
        /\ (pc = "fallback" /\ pc' # "fallback") =>
              /\ Len(dl_calls') = Len(dl_calls) + 1
              /\ dl_calls'[Len(dl_calls')].raised =>
                    src_dir' = src_dir /\ clone_calls' = clone_calls
              /\ dl_calls'[Len(dl_calls')].file = <<"">> => clone_calls' = clone_calls
              /\ clone_calls' # clone_calls =>
                    /\ ~dl_calls'[Len(dl_calls')].raised
                    /\ clone_calls'[Len(clone_calls')].target_dir_exists
                    /\ clone_calls'[Len(clone_calls')].checkout
                          <=> dl_calls'[Len(dl_calls')].file = <<"c1">>
              /\ pc' = "post" =>
                    clone_calls' # clone_calls /\ ~clone_calls'[Len(clone_calls')].raised

\* C24: the VCS fallback asks the mirror for <name>.tar.gz or
\* <name>_<revision>.tar.gz, the name the producer writes; download,
\* extraction and local-only sync run in this order, and the library is
\* cached only if all three succeeded.
C24_FallbackProtocol == [](C24_State) /\ [][C24_Step]_vars

\* A git entry pinned to a revision was cached from its snapshot.
C24_Witness ==
    /\ source.type = "git" /\ source.revision = "r1"
    /\ Has("fallback_ok", 1) /\ Has("cached", 1)
    /\ LastCall.url = <<FALLBACK_URL, "snapshots", "a_r1.tar.gz">>
    /\ Len(LastClone.cmds) = 2

\* ---------------------------------------------------------------- C25
\* The primary chain of an archive entry failed at one of its steps: the
\* download or the hash verification raised, or the file was no archive.
PrimaryChainFailed ==
    /\ dl_calls # <<>>
    /\ dl_calls[1].which = "primary"
    /\ dl_calls[1].raised \/ dl_calls[1].file = <<"">>

\* C25: for an archive entry with a fallback URL, a failure at any step of
\* the primary chain is followed by exactly one fallback attempt: a download
\* of <fallbackBase>/archives/<originalFilename> that goes to the network
\* whatever is cached, verified against the same sha1, then the extraction;
\* when the fallback attempt fails the library fails.
C25_ArchiveFallback ==
    (source.type = "archive" /\ FALLBACK_URL # "" /\ PrimaryChainFailed) =>
        /\ Has("primary_fail", 1)
        /\ \/ pc = "fallback" /\ Len(dl_calls) = 1
           \/ /\ Len(dl_calls) = 2
              /\ dl_calls[2].which = "fallback"
              /\ dl_calls[2].url = <<FALLBACK_URL, "archives", "pkg.zip">>
              /\ dl_calls[2].sha1_hash = source.sha1
              /\ dl_calls[2].force_download /\ dl_calls[2].downloaded
              /\ Cardinality({k \in DOMAIN log :
                                 log[k].ev \in {"fallback_ok", "fallback_fail"}}) = 1
              /\ IF dl_calls[2].raised \/ dl_calls[2].file = <<"">>
                 THEN LibFailed /\ Has("fallback_fail", 1)
                 ELSE /\ Has("fallback_ok", 1)
                      /\ dl_calls[2].file = <<dl_calls[2].response>>
                      /\ pc = "post" =>
                            <<"m", dl_calls[2].response>> \in src_dir[data[1].name][1]

\* The cached archive file was valid but no archive, the mirror's copy was
\* downloaded although a file was cached, extracted, and the library cached.
C25_Witness ==
    /\ source.type = "archive" /\ source.sha1 = None
    /\ PrimaryChainFailed /\ ~dl_calls[1].downloaded /\ ~dl_calls[1].raised
    /\ Len(dl_calls) = 2 /\ dl_calls[2].downloaded
    /\ Has("fallback_ok", 1) /\ Has("cached", 1)

\* ---------------------------------------------------------------- C26
CmdsOf(c) == {c.cmds[k].cmd : k \in DOMAIN c.cmds}

\* C26: a cloneRepository call in local-only mode on a target without a
\* checkout raises and runs no clone or checkout command, for git, hg and
\* svn; on a target with a checkout it runs no fetch or pull command.
C26_LocalOnly ==
    \A k \in DOMAIN clone_calls :
        LET c == clone_calls[k]
        IN c.try_only_local_operations =>
              /\ ~c.checkout => c.raised /\ CmdsOf(c) \cap {"clone", "checkout"} = {}
              /\ c.checkout => CmdsOf(c) \cap {"fetch", "pull"} = {}

\* ---------------------------------------------------------------- C27
\* The commands of a git or hg sync in normal mode, as stated: clone without
\* the marker, else fetch/pull; reset/update to the revision; clean/purge.
SyncCommands(c) ==
    LET git == c.type = "git"
        rev == IF c.revision # None THEN c.revision ELSE IF git THEN "HEAD" ELSE ""
    IN <<IF ~c.checkout THEN Cmd(c.type, "clone", "url")
         ELSE Cmd(c.type, IF git THEN "fetch" ELSE "pull", ""),
         Cmd(c.type, IF git THEN "reset" ELSE "update", rev),
         Cmd(c.type, IF git THEN "clean" ELSE "purge", "")>>

\* The number of commands run when each runs only after a zero status.
RunUntilNonZero(results) ==
    IF results[1] # 0 THEN 1 ELSE IF results[2] # 0 THEN 2 ELSE 3

\* C27: a git or hg sync in normal mode runs clone iff the marker is absent
\* (the target directory is removed first), else fetch/pull, then the
\* reset/update to the revision, then the clean, each only after the one
\* before returned zero.
C27_SyncCommands ==
    \A k \in DOMAIN clone_calls :
        LET c == clone_calls[k]
            n == RunUntilNonZero(c.results)
        IN (c.type \in {"git", "hg"} /\ ~c.try_only_local_operations) =>
              /\ c.cmds = SubSeq(SyncCommands(c), 1, n)
              /\ c.raised <=> c.results[n] # 0
              /\ (c.cmds[1].cmd = "clone" /\ dl_calls = <<>>) =>
                    \/ src_dir[data[1].name] = <<>>
                    \/ Stale \notin src_dir[data[1].name][1]

\* An hg repository that existed was pulled, updated to r1 and purged; a
\* directory that was no repository was removed and cloned into.
C27_Witness ==
    /\ clone_calls # <<>>
    /\ LastClone.type = "hg" /\ ~LastClone.try_only_local_operations
    /\ LastClone.checkout /\ LastClone.revision = "r1"
    /\ Len(LastClone.cmds) = 3 /\ ~LastClone.raised
    /\ Has("cached", 1)

\* ---------------------------------------------------------------- C28
ApplyCmds(c) == {k \in DOMAIN c.cmds : c.cmds[k].cmd = "apply"}

\* C28: applyPatchFile runs the real patch command only after a dry-run
\* that returned zero, with the arguments of that dry-run: text mode when
\* the first dry-run passed, binary mode when the first failed and the
\* second passed; when both fail no real patch command is run, the library
\* ends failed and is not cached.
C28_PatchAfterDryRun ==
    \A k \in DOMAIN patch_calls :
        LET c == patch_calls[k]
            text_ok == c.results[1] = 0
            binary_ok == c.results[1] # 0 /\ c.results[2] = 0
        IN /\ text_ok => c.cmds = <<Cmd("patch", "dry-run", "text"),
                                    Cmd("patch", "apply", "text")>>
           /\ binary_ok => c.cmds = <<Cmd("patch", "dry-run", "text"),
                                      Cmd("patch", "dry-run", "binary"),
                                      Cmd("patch", "apply", "binary")>>
           /\ (~text_ok /\ ~binary_ok) =>
                 /\ ApplyCmds(c) = {}
                 /\ LibFailed
                 /\ Has("post_fail", 1) /\ ~Has("cached", 1)
           /\ \A a \in ApplyCmds(c) :
                 /\ a > 1
                 /\ c.cmds[a - 1] = Cmd("patch", "dry-run", c.cmds[a].arg)
                 /\ c.results[a - 1] = 0

\* The text-mode dry-run failed, the binary-mode one passed, the patch was
\* applied in binary mode and the library cached.
C28_Witness ==
    /\ patch_calls # <<>>
    /\ patch_calls[1].results = <<1, 0, 0>>
    /\ Len(patch_calls[1].cmds) = 3
    /\ Has("cached", 1)

\* ---------------------------------------------------------------- C29
HashGiven(c) == c.sha1_hash # None /\ c.sha1_hash # ""

\* C29: a downloadFile call goes to the network exactly when the file is
\* absent from the download directory, or force_download is set, or a
\* non-empty sha1 is given and the digest of the cached file differs from
\* it; otherwise the cached file is reused as it is, without a request.
C29_DownloadIff ==
    \A k \in DOMAIN dl_calls :
        LET c == dl_calls[k]
        IN /\ c.downloaded <=>
                 \/ c.cache = <<>>
                 \/ c.force_download
                 \/ (HashGiven(c) /\ c.cache # <<>> /\ Sha1(c.cache[1]) # c.sha1_hash)
           /\ ~c.downloaded => (c.file = c.cache /\ ~c.raised)

\* A cached file with the digest asked for is reused: no request is made
\* and the call returns.
C29_Witness ==
    /\ dl_calls # <<>>
    /\ LET c == dl_calls[1]
       IN /\ c.cache # <<>>
          /\ ~c.force_download
          /\ HashGiven(c) /\ Sha1(c.cache[1]) = c.sha1_hash
          /\ ~c.downloaded /\ ~c.raised

\* ---------------------------------------------------------------- C30
TarXz(parts) ==
    /\ SplitExt(parts).extension = "xz"
    /\ SplitExt(SplitExt(parts).stem).extension = "tar"

\* C30: extractFile chooses the handler by the extension of the file
\* name: .zip or no extension is opened as a zip file; .tar, .gz and .bz2
\* as a tar file; .xz as a tar file only when the stem ends in .tar, after
\* being decompressed to a temporary .tar; a bare .xz and every other
\* extension raise, nothing is opened and no target directory results.
C30_DispatchByExtension ==
    \A k \in DOMAIN extraction :
        LET e == extraction[k]
            ext == SplitExt(filename).extension
        IN /\ ext \in {"zip", ""} => (e.handler = "zip" /\ ~e.tmp_tar)
           /\ ext \in {"tar", "gz", "bz2"} => (e.handler = "tar" /\ ~e.tmp_tar)
           /\ TarXz(filename) => (e.handler = "tar" /\ (e.opened => e.tmp_tar))
           /\ (ext \notin {"zip", "", "tar", "gz", "bz2"} /\ ~TarXz(filename)) =>
                 /\ e.handler = "error"
                 /\ e.raised /\ ~e.opened /\ ~e.tmp_tar
                 /\ e.kind = "absent" /\ e.files = {}
           /\ e.opened =>
                 /\ e.handler = "zip" => format = "zip"
                 /\ (e.handler = "tar" /\ ~e.tmp_tar) => format \in {"tar", "tar.gz", "tar.bz2", "tar.xz"}
                 /\ e.tmp_tar => format = "tar.xz"

\* A well-formed xz-compressed tar file named pkg.xz is refused.
C30_Witness ==
    /\ extraction # <<>>
    /\ filename = <<"pkg", "xz">>
    /\ format = "tar.xz"
    /\ lzma_available
    /\ entries # {}
    /\ extraction[1].handler = "error"
    /\ extraction[1].raised

\* ---------------------------------------------------------------- C31
PrimarySyncSucceeded ==
    /\ clone_calls # <<>>
    /\ clone_calls[1].which = "primary"
    /\ ~clone_calls[1].raised

MirrorContacted == \E k \in DOMAIN dl_calls : dl_calls[k].which = "fallback"

\* C31: when the primary sync of a repository library succeeded, the
\* fallback mirror is not contacted for it in that run, also under
\* --repo-snapshots when the snapshot archive cannot be written.
C31_NoFallbackAfterSync == PrimarySyncSucceeded => ~MirrorContacted

\* ---------------------------------------------------------------- C32
UniqueNames(s) == \A j, k \in DOMAIN s : s[j].name = s[k].name => j = k

\* C32: the cached state holds at most one entry per library name, in
\* memory and in every state file written, in every run that follows a
\* start without state file, also for a manifest with a repeated name.
C32_OneEntryPerName ==
    /\ UniqueNames(sdata)
    /\ state_file # <<>> => UniqueNames(state_file[1])

\* Two different entries of one name were both processed and recorded in
\* this run; the state file holds the later one only.
C32_Witness ==
    /\ Len(data) >= 2
    /\ data[1].name = data[2].name
    /\ data[1] # data[2]
    /\ Has("cached", 1) /\ Has("cached", 2)
    /\ state_file = <<sdata>>
    /\ \E k \in DOMAIN sdata : sdata[k] = data[2]

\* ---------------------------------------------------------------- C33
\* The name is not selected by the run: the filters exclude it, or no entry
\* of the manifest has it.
Unselected(n) == Filtered(n) \/ n \notin NamesOf(data)

EntriesOf(s, n) == {e \in Range(s) : e.name = n}

\* A step of a run leaves what belongs to the name n as it is: its
\* workspace directory and its entries of the cached state; a state file
\* that is written holds the entries of n that were loaded.
UntouchedBy(n) ==
    /\ n \in lib_dirs' <=> n \in lib_dirs
    /\ n \in DOMAIN src_dir => src_dir'[n] = src_dir[n]
    /\ EntriesOf(sdata', n) = EntriesOf(sdata, n)
    /\ state_file' # state_file => EntriesOf(state_file'[1], n) = EntriesOf(loaded, n)

\* C33: no step of a run touches a library whose name the filters exclude
\* or that is in the cached state but not in the manifest: its workspace
\* directory is not created, removed or changed, and its cached entry stays
\* in memory and in every state file written, also under --clean.  The steps
\* looked at are those of one run after the state file was loaded.
C33_UnselectedUntouched ==
    [][(run' = run /\ pc # "start") => \A n \in Names : Unselected(n) => UntouchedBy(n)]_vars

\* ---------------------------------------------------------------- C34
\* The URLs the library with this source object is fetched from.
OwnUrls(src) == {src.url, FallbackSrcUrl("archives", FileNameRel(src.url))}

\* The URL of the latest request that wrote the file of the download
\* directory, None when there was none.
RECURSIVE WrittenFrom(_)
WrittenFrom(calls) ==
    IF calls = <<>> THEN None
    ELSE IF calls[Len(calls)].downloaded THEN calls[Len(calls)].url
    ELSE WrittenFrom(SubSeq(calls, 1, Len(calls) - 1))

\* C34: the file a sourcefile or archive acquisition delivers into the
\* workspace of a library was fetched from the library's own URL or from
\* its fallback URL, never for the URL of another library, also when the
\* URLs of two libraries end in the same file name and no sha1 is given.
C34_OwnContentOnly ==
    [][(pc' = "post" /\ Len(dl_calls') = Len(dl_calls) + 1)
          => WrittenFrom(dl_calls') \in OwnUrls(source)]_vars

\* ---------------------------------------------------------------- C35
\* The library at position j has had at most one primary acquisition, one
\* fallback acquisition and one post-processing in this run.
NoRetry(j) ==
    /\ Cardinality(EventsOf(j, {"primary_ok", "primary_fail"})) <= 1
    /\ Cardinality(EventsOf(j, {"fallback_ok", "fallback_fail"})) <= 1
    /\ Cardinality(EventsOf(j, {"post_ok", "post_fail"})) <= 1

\* C35: when every external operation returns, every run ends, and in a
\* run no entry of the manifest gets more than one primary acquisition, one
\* fallback acquisition and one post-processing.
C35_TerminatesNoRetry ==
    /\ [](\A j \in DOMAIN data : NoRetry(j))
    /\ (pc # "exited") ~> (pc = "exited")

\* A run that ended by itself in which one library had its one primary
\* acquisition fail, its one fallback succeed and its one post-processing.
C35_Witness ==
    /\ RanToEnd
    /\ \E j \in DOMAIN data :
          /\ Has("primary_fail", j) /\ Has("fallback_ok", j)
          /\ Has("post_ok", j) \/ Has("post_fail", j)

\* ---------------------------------------------------------------- C36
\* The base directory the command line selects: the value of its last
\* -b / --base-dir, the directory the script was started in without one.
SelectedBaseDir ==
    LET ks == {k \in DOMAIN argv : argv[k].opt \in {"-b", "--base-dir"}}
    IN IF ks = {} THEN start_dir
       ELSE Abspath(start_dir, argv[CHOOSE k \in ks : \A l \in ks : l <= k].arg)

IsUnder(base, path) == Len(path) >= Len(base) /\ SubSeq(path, 1, Len(base)) = base

\* C36: every directory a run reads from or writes to (source root,
\* archive cache, snapshot directory when a snapshot is written and when
\* one is downloaded from the mirror, patches directory) lies under the
\* base directory selected with the base-dir option.
C36_UnderBaseDir == \A t \in touched : IsUnder(SelectedBaseDir, t[2])

TypeOK ==
    /\ pc \in {"sanity", "local_sanity", "merge", "merged", "extract", "extracted",
              "opts", "chdir", "mkdirs", "libs",
              "start", "loop", "libdir", "source", "fallback", "post", "record", "exited"}
    /\ Len(exit_status) <= 1
    /\ lib_dirs \subseteq Names

====
